---- MODULE Spec2Model ----
(***************************************************************************)
(* robopages-cli: the concurrent call executor (src/runtime/mod.rs), the   *)
(* per-call pipeline of execute_call, the catalog loader and lookup        *)
(* (src/book/mod.rs) and argument validation (src/book/runtime.rs).        *)
(*                                                                         *)
(* Specifications:                                                         *)
(*   Spec      execute / execute_call as concurrent tasks sharing the      *)
(*             process-wide ACTIVE_TASKS counter                           *)
(*   SpecCall  one call walked through execute_call step by step           *)
(*   SpecLoad  Book::from_path over a sorted list of page files, followed  *)
(*             by Book::get_function lookups                               *)
(***************************************************************************)
EXTENDS Integers, Sequences, FiniteSets, TLC

(***************************************************************************)
(* Bounds of the model.                                                    *)
(***************************************************************************)
\* call tasks spawned in one run of the executor, over all batches
MaxTasks == 3
\* largest value of max_running_tasks tried
MaxRunning == 2
\* page files under the catalog root
MaxPages == 3
\* lines prompt::ask rejects before one it accepts
MaxPrompts == 2
\* characters of the connection string handed to SSHConnection::from_str
MaxSpecLen == 5

VARIABLES
  \* ---- executor (Spec) ----
  ACTIVE_TASKS,       \* static ACTIVE_TASKS: AtomicUsize
  max_running_tasks,  \* the cap handed to execute / execute_call
  task,               \* task id -> [pc, batch, index, result]
  batches,            \* sequence of [calls, ret, results]: one per execute()
  \* ---- one call (SpecCall) ----
  interactive,        \* execute_call's `interactive`
  ssh,                \* execute_call's `ssh`: TRUE when --ssh was given
  call,               \* the openai::Call: [id, name, arguments]
  cpc,                \* where the call is inside execute_call
  function,           \* the FunctionRef found by get_function
  command_line,       \* the CommandLine being planned and run
  can_ssh,            \* local of execute_call
  needs_container,    \* local of execute_call
  result,             \* what the task handed to its JoinHandle
  trace,              \* the steps the call has gone through, in order
  batch_ret,          \* what execute returned for the batch of this call
  env_file,           \* the temporary env file of the call: [state, contents]
  \* ---- catalog loader (SpecLoad) ----
  page_files,         \* the page files found under the root, in path order
  pages,              \* Book.pages being built: loaded pages in path order
  function_names,     \* from_path's running set of seen function names
  book,               \* "discovering", "loading", "Ok", or from_path's error
  lookup,             \* the last get_function call: [name, result]
  discovery,          \* from_path's root, filter and glob entries: [path,
                      \* filter, entries, next]
  \* ---- HTTP server and remote (SpecServe, SpecRemote) ----
  http,               \* the last GET of the catalog: [filter, query, status,
                      \* flavor, tools]
  remote              \* SSHConnection::from_str: [input, key_exists, result]

execVars == <<ACTIVE_TASKS, max_running_tasks, task, batches>>

loadVars == <<page_files, pages, function_names, book, lookup, discovery>>

callVars == <<interactive, ssh, call, cpc, function, command_line, can_ssh,
              needs_container, result, trace, batch_ret, env_file>>

serveVars == <<http, remote>>

vars == <<execVars, loadVars, callVars, serveVars>>

(***************************************************************************)
(* Helpers on sequences.                                                   *)
(***************************************************************************)
Range(s) == {s[i] : i \in DOMAIN s}

(***************************************************************************)
(* Executor: src/runtime/mod.rs                                            *)
(***************************************************************************)
Tasks == 1..MaxTasks

\* openai::Call.id values a caller may assign
CallIds == {"call1", "call2"}

\* the ways out of execute_call once the counter has been incremented:
\* every `?`, every explicit return, the final Ok, and an unwinding panic
ExitPaths ==
  {"unknown function", "argument validation", "template resolution",
   "ssh probe", "container required", "container resolve", "container wrap",
   "prompt io", "cancelled by user", "execution error", "success", "panic"}

\* what the task's JoinHandle yields for each way out:
\*   "ok"    Ok(Ok(CallResultMessage))
\*   "err"   Ok(Err(anyhow))
\*   "panic" Err(JoinError)
ExitKind(exit) ==
  IF exit \in {"cancelled by user", "success"} THEN "ok"
  ELSE IF exit = "panic" THEN "panic"
  ELSE "err"

NoResult == [kind |-> "none", call_id |-> "none"]

IdleTask == [pc |-> "unspawned", batch |-> 0, index |-> 0, result |-> NoResult]

\* the executor before any batch arrives
ExecIdle ==
  /\ ACTIVE_TASKS = 0
  /\ task = [t \in Tasks |-> IdleTask]
  /\ batches = <<>>

Spawned == {t \in Tasks : task[t].pc # "unspawned"}

\* tasks between the fetch_add and the drop of the scope guard
Inside == {t \in Tasks : task[t].pc = "inside"}

Finished(t) == task[t].pc = "finished"

TasksOf(b) == {t \in Tasks : task[t].batch = b}

TaskAt(b, i) == CHOOSE t \in Tasks : task[t].batch = b /\ task[t].index = i

\* AtomicUsize::fetch_add(1) / fetch_sub(1); a negative value stands for the
\* wrap-around of the unsigned counter
fetch_add(counter) == counter + 1

fetch_sub(counter) == counter - 1

\* a guard that is leaked when the stack unwinds: the closure never runs
ScopeCallDrop_leak_on_panic(counter, exit) ==
  IF exit = "panic" THEN counter ELSE fetch_sub(counter)

\* Drop for ScopeCall: runs the deferred closure, whichever way the scope exits
ScopeCallDrop(counter, exit) == fetch_sub(counter)

\* a test that keeps one slot of the limit unused
HasAvailableSlot_one_short(active_tasks, max) == active_tasks + 1 < max

\* the condition that leaves the polling loop of wait_for_available_tasks
HasAvailableSlot(active_tasks, max) == active_tasks < max

\* execute(): the for loop that spawns one task per call
execute_spawn(ids) ==
  LET n     == Len(ids)
      first == Cardinality(Spawned)
      b     == Len(batches) + 1
  IN /\ first + n <= MaxTasks
     /\ task' = [t \in Tasks |->
                   IF t > first /\ t <= first + n
                     THEN [pc |-> "wait", batch |-> b, index |-> t - first,
                           result |-> NoResult]
                     ELSE task[t]]
     /\ batches' = Append(batches, [calls |-> ids, ret |-> "pending", results |-> <<>>])
     /\ UNCHANGED <<ACTIVE_TASKS, max_running_tasks>>
     /\ UNCHANGED <<loadVars, callVars, serveVars>>

\* wait_for_available_tasks: one turn of the loop (load, compare, break or sleep)
wait_for_available_tasks(t) ==
  /\ task[t].pc = "wait"
  /\ task' = [task EXCEPT ![t].pc =
                IF HasAvailableSlot(ACTIVE_TASKS, max_running_tasks)
                  THEN "admitted" ELSE "sleep"]
  /\ UNCHANGED <<ACTIVE_TASKS, max_running_tasks, batches>>
  /\ UNCHANGED <<loadVars, callVars, serveVars>>

\* tokio::time::sleep(wait) elapsed: back to the top of the loop
wait_sleep_elapsed(t) ==
  /\ task[t].pc = "sleep"
  /\ task' = [task EXCEPT ![t].pc = "wait"]
  /\ UNCHANGED <<ACTIVE_TASKS, max_running_tasks, batches>>
  /\ UNCHANGED <<loadVars, callVars, serveVars>>

\* execute_call after the wait returned: ACTIVE_TASKS.fetch_add(1) and defer!
execute_call_enter(t) ==
  /\ task[t].pc = "admitted"
  /\ ACTIVE_TASKS' = fetch_add(ACTIVE_TASKS)
  /\ task' = [task EXCEPT ![t].pc = "inside"]
  /\ UNCHANGED <<max_running_tasks, batches>>
  /\ UNCHANGED <<loadVars, callVars, serveVars>>

\* execute_call leaves through one of its exits; the scope guard is dropped
execute_call_exit(t) ==
  /\ task[t].pc = "inside"
  /\ \E exit \in ExitPaths :
       /\ ACTIVE_TASKS' = ScopeCallDrop(ACTIVE_TASKS, exit)
       /\ task' = [task EXCEPT
                     ![t].pc = "finished",
                     ![t].result =
                        [kind    |-> ExitKind(exit),
                         call_id |-> IF ExitKind(exit) = "ok"
                                       THEN batches[task[t].batch].calls[task[t].index]
                                       ELSE "none"]]
  /\ UNCHANGED <<max_running_tasks, batches>>
  /\ UNCHANGED <<loadVars, callVars, serveVars>>

\* a collector that treats a join error like a failed call
RECURSIVE execute_collect_join_err_fails(_, _)
execute_collect_join_err_fails(joined, results) ==
  IF joined = <<>> THEN [ret |-> "Ok", results |-> results]
  ELSE LET future_result == Head(joined)
       IN IF future_result.kind = "ok"
            THEN execute_collect_join_err_fails(
                   Tail(joined),
                   Append(results, [role |-> "tool",
                                    call_id |-> future_result.call_id]))
          ELSE [ret |-> "Err", results |-> <<>>]

\* a collector that hands a failed call back as one more result
RECURSIVE execute_collect_err_as_result(_, _)
execute_collect_err_as_result(joined, results) ==
  IF joined = <<>> THEN [ret |-> "Ok", results |-> results]
  ELSE LET future_result == Head(joined)
       IN IF future_result.kind \in {"ok", "err"}
            THEN execute_collect_err_as_result(
                   Tail(joined),
                   Append(results, [role |-> "tool",
                                    call_id |-> future_result.call_id]))
          ELSE execute_collect_err_as_result(Tail(joined), results)

\* execute(): the loop over join_all's output, in the order of `futures`
RECURSIVE execute_collect(_, _)
execute_collect(joined, results) ==
  IF joined = <<>> THEN [ret |-> "Ok", results |-> results]
  ELSE LET future_result == Head(joined)
       IN IF future_result.kind = "ok"
            THEN execute_collect(Tail(joined),
                                 Append(results, [role |-> "tool",
                                                  call_id |-> future_result.call_id]))
          ELSE IF future_result.kind = "err"
            THEN [ret |-> "Err", results |-> <<>>]
          ELSE \* Err(JoinError): logged, nothing pushed
               execute_collect(Tail(joined), results)

\* a join that resolves as soon as one task has failed
try_join_all(b) ==
  \/ \A t \in TasksOf(b) : Finished(t)
  \/ \E t \in TasksOf(b) : Finished(t) /\ task[t].result.kind = "err"

\* futures::future::join_all: resolves once every future of the batch has
join_all(b) == \A t \in TasksOf(b) : Finished(t)

\* execute(): the loop that runs once join_all(futures).await has resolved
execute_return(b) ==
  /\ b \in DOMAIN batches
  /\ batches[b].ret = "pending"
  /\ join_all(b)
  /\ LET n      == Len(batches[b].calls)
         joined == [i \in 1..n |-> task[TaskAt(b, i)].result]
         out    == execute_collect(joined, <<>>)
     IN batches' = [batches EXCEPT ![b].ret = out.ret, ![b].results = out.results]
  /\ UNCHANGED <<ACTIVE_TASKS, max_running_tasks, task>>
  /\ UNCHANGED <<loadVars, callVars, serveVars>>

(***************************************************************************)
(* Catalog loader and lookup: src/book/mod.rs                              *)
(***************************************************************************)
\* function names used as keys of a page's `functions` map, in the order a
\* BTreeMap<String, _> iterates them (byte order of the strings)
FuncNameOrder == <<"b_run", "run", "s_run">>

FuncNames == Range(FuncNameOrder)

\* a page file: its file stem, the `name` of its YAML ("" when absent) and the
\* keys of its `functions` map
PageFiles ==
  [stem : {"a", "b"}, yaml_name : {""}, functions : SUBSET FuncNames]
    \cup [stem : {"b"}, yaml_name : {"s"}, functions : SUBSET FuncNames]

\* the Function parsed from key `key` of page file number `file`
FunctionDef(file, key) ==
  [file |-> file, key |-> key, execution |-> page_files[file].executions[key],
   parameters |-> page_files[file].parameters[key]]

\* the `parameters` map written under the function key `key` of a YAML file
YamlParameters(key) ==
  CASE key = "run"   -> [a |-> [required |-> TRUE], b |-> [required |-> FALSE]]
    [] key = "s_run" -> [a |-> [required |-> TRUE], b |-> [required |-> TRUE]]
    [] OTHER         -> <<>>

\* format!("{}_{}", &page.name, func_name)
NewFuncName(page_name, func_name) == page_name \o "_" \o func_name

\* BTreeMap::remove / BTreeMap::insert on a map held as a function
MapRemove(m, k) == [x \in DOMAIN m \ {k} |-> m[x]]

MapInsert(m, k, v) == [x \in DOMAIN m \cup {k} |-> IF x = k THEN v ELSE m[x]]

\* the keys of a set of function names in BTreeMap iteration order
SortedKeys(S) == SelectSeq(FuncNameOrder, LAMBDA n : n \in S)

\* every order in which a HashMap may iterate over the key set S
IterationOrders(S) ==
  {o \in [1..Cardinality(S) -> S] : \A i, j \in DOMAIN o : i # j => o[i] # o[j]}

\* `if page.name.is_empty() { page.name = file_stem }`
PageName(file) == IF file.yaml_name = "" THEN file.stem ELSE file.yaml_name

\* a path or any other text held as the sequence of its characters
chars_starts_with(text, prefix) ==
  Len(prefix) <= Len(text) /\ SubSeq(text, 1, Len(prefix)) = prefix

\* str::contains
chars_contains(text, pattern) ==
  \E i \in 1..(Len(text) + 1) :
    /\ i + Len(pattern) - 1 <= Len(text)
    /\ SubSeq(text, i, i + Len(pattern) - 1) = pattern

\* Path::components: the pieces between separators, empty pieces dropped
RECURSIVE components(_, _)
components(path, piece) ==
  IF path = <<>> THEN (IF piece = <<>> THEN <<>> ELSE <<piece>>)
  ELSE IF Head(path) = "/"
    THEN (IF piece = <<>> THEN <<>> ELSE <<piece>>) \o components(Tail(path), <<>>)
  ELSE components(Tail(path), Append(piece, Head(path)))

\* the String made of a sequence of characters
RECURSIVE as_str(_)
as_str(text) == IF text = <<>> THEN "" ELSE Head(text) \o as_str(Tail(text))

\* the characters of a file stem
StemChars(stem) ==
  CASE stem = "a" -> <<"a">>
    [] stem = "b" -> <<"b">>
    [] stem = ".b" -> <<".", "b">>

\* the file name of a page file: its stem and the extension
FileName(file) == StemChars(file.stem) \o <<".", "y", "m", "l">>

\* Path::join
path_join(base, rest) ==
  IF rest = <<>> THEN base
  ELSE IF base = <<>> THEN rest
  ELSE base \o <<"/">> \o rest

\* the path glob yields for a page file under `root`
EntryPath(root, file) == path_join(path_join(root, file.dir), FileName(file))

\* Path::strip_prefix
strip_prefix(path, prefix) ==
  IF chars_starts_with(path, prefix \o <<"/">>)
    THEN [ok |-> TRUE, path |-> SubSeq(path, Len(prefix) + 2, Len(path))]
    ELSE [ok |-> FALSE, path |-> <<>>]

\* a test that looks at every component of the entry's path, the root's too
is_hidden_whole_path(entry_path, root) ==
  \E i \in DOMAIN components(entry_path, <<>>) :
    LET comp_str == components(entry_path, <<>>)[i]
    IN /\ chars_starts_with(comp_str, <<".">>)
       /\ comp_str # <<".">>
       /\ comp_str # <<".", ".">>

\* "skip files in hidden directories": the test on one glob entry
is_hidden(entry_path, root) ==
  LET relative_path == strip_prefix(entry_path, root)
  IN /\ relative_path.ok
     /\ \E i \in DOMAIN components(relative_path.path, <<>>) :
          LET comp_str == components(relative_path.path, <<>>)[i]
          IN /\ chars_starts_with(comp_str, <<".">>)
             /\ comp_str # <<".">>
             /\ comp_str # <<".", ".">>

\* eval_if_in_filter!: include by default, or when the path holds the filter
in_filter(path, filter) == filter.set => chars_contains(path, filter.text)

\* `if page.categories.is_empty() { ... }`: the components of the parent of
\* the page's path relative to the root, the empty ones dropped
PageCategories(file) ==
  IF file.categories = <<>>
    THEN LET parent_path == components(file.dir, <<>>)
             categories  == [i \in DOMAIN parent_path |-> as_str(parent_path[i])]
         IN SelectSeq(categories, LAMBDA c : c # "")
    ELSE file.categories

\* from_path: `for func_name in page.functions.keys()`, filling `renames` and
\* `function_names`, or returning the "is not unique" error
RECURSIVE unique_names_pass(_, _, _, _)
unique_names_pass(keys, page_name, seen, renames) ==
  IF keys = <<>> THEN [err |-> FALSE, seen |-> seen, renames |-> renames]
  ELSE LET func_name     == Head(keys)
           new_func_name == NewFuncName(page_name, func_name)
       IN IF func_name \in seen
            THEN IF new_func_name \notin seen
                   THEN unique_names_pass(Tail(keys), page_name,
                                          seen \cup {func_name},
                                          MapInsert(renames, func_name, new_func_name))
                   ELSE [err |-> TRUE, seen |-> seen, renames |-> renames]
            ELSE unique_names_pass(Tail(keys), page_name,
                                   seen \cup {func_name}, renames)

\* a renaming that stops after the first entry the HashMap hands out
apply_renames_first_only(functions, renames, order) ==
  IF order = <<>> THEN functions
  ELSE MapInsert(MapRemove(functions, Head(order)), renames[Head(order)],
                 functions[Head(order)])

\* from_path: `for (old_name, new_name) in renames { remove; insert }`
RECURSIVE apply_renames(_, _, _)
apply_renames(functions, renames, order) ==
  IF order = <<>> THEN functions
  ELSE LET old_name == Head(order)
           moved    == functions[old_name]
       IN apply_renames(MapInsert(MapRemove(functions, old_name),
                                  renames[old_name], moved),
                        renames, Tail(order))

\* page.functions as parsed from page file number i
ParsedFunctions(i) ==
  [key \in page_files[i].functions |-> FunctionDef(i, key)]

\* no filter: Option::None
NoFilter == [set |-> FALSE, text |-> <<>>]

NoDiscovery == [path |-> <<>>, filter |-> NoFilter, entries |-> <<>>, next |-> 1]

LoadIdle ==
  /\ page_files = <<>>
  /\ pages = <<>>
  /\ function_names = {}
  /\ book = "idle"
  /\ lookup = [name |-> "", result |-> [found |-> FALSE]]
  /\ discovery = NoDiscovery

\* from_path: one iteration of `for entry in glob(&glob_pattern)?`
from_path_glob_entry ==
  /\ book = "discovering"
  /\ discovery.next <= Len(discovery.entries)
  /\ LET file       == discovery.entries[discovery.next]
         entry_path == EntryPath(discovery.path, file)
     IN page_files' =
          IF is_hidden(entry_path, discovery.path) THEN page_files
          ELSE IF in_filter(entry_path, discovery.filter)
            THEN Append(page_files, file)
          ELSE page_files
  /\ discovery' = [discovery EXCEPT !.next = @ + 1]
  /\ book' = IF discovery.next = Len(discovery.entries) THEN "loading" ELSE book
  /\ UNCHANGED <<pages, function_names, lookup>>
  /\ UNCHANGED <<execVars, callVars, serveVars>>

\* from_path: `if page_paths.is_empty() { return Err("no pages found") }`
from_path_no_pages ==
  /\ book = "loading"
  /\ page_files = <<>>
  /\ book' = "no pages found"
  /\ UNCHANGED <<page_files, pages, function_names, lookup, discovery>>
  /\ UNCHANGED <<execVars, callVars, serveVars>>

\* from_path: one iteration of `for page_path in page_paths`
from_path_load_page ==
  /\ book = "loading"
  /\ Len(pages) < Len(page_files)
  /\ LET i    == Len(pages) + 1
         name == PageName(page_files[i])
         pass == unique_names_pass(SortedKeys(page_files[i].functions), name,
                                   function_names, <<>>)
     IN IF pass.err
          THEN /\ book' = "function name is not unique"
               /\ UNCHANGED <<pages, function_names>>
          ELSE /\ \E order \in IterationOrders(DOMAIN pass.renames) :
                    pages' = Append(pages,
                               [path |-> i, name |-> name,
                                categories |-> PageCategories(page_files[i]),
                                functions |-> apply_renames(ParsedFunctions(i),
                                                            pass.renames, order)])
               /\ function_names' = pass.seen
               /\ UNCHANGED book
  /\ UNCHANGED <<page_files, lookup, discovery>>
  /\ UNCHANGED <<execVars, callVars, serveVars>>

\* from_path: `Ok(Self { pages })` after the last page
from_path_return ==
  /\ book = "loading"
  /\ page_files # <<>>
  /\ Len(pages) = Len(page_files)
  /\ book' = "Ok"
  /\ UNCHANGED <<page_files, pages, function_names, lookup, discovery>>
  /\ UNCHANGED <<execVars, callVars, serveVars>>

\* a lookup that keeps scanning and returns the last page holding the name
RECURSIVE get_function_last_match(_, _)
get_function_last_match(ps, name) ==
  IF ps = <<>> THEN [found |-> FALSE]
  ELSE LET page == ps[Len(ps)]
       IN IF name \in DOMAIN page.functions
            THEN [found |-> TRUE, name |-> name, path |-> page.path,
                  function |-> page.functions[name]]
            ELSE get_function_last_match(SubSeq(ps, 1, Len(ps) - 1), name)

\* Book::get_function: scan the pages in path order, first hit wins
RECURSIVE get_function(_, _)
get_function(ps, name) ==
  IF ps = <<>> THEN [found |-> FALSE]
  ELSE LET page == Head(ps)
       IN IF name \in DOMAIN page.functions
            THEN [found |-> TRUE, name |-> name, path |-> page.path,
                  function |-> page.functions[name]]
            ELSE get_function(Tail(ps), name)

\* names a caller may look up
LookupNames ==
  FuncNames \cup {"a_run", "non_existing_function"}

get_function_call ==
  /\ book = "Ok"
  /\ \E name \in LookupNames :
       lookup' = [name |-> name, result |-> get_function(pages, name)]
  /\ UNCHANGED <<page_files, pages, function_names, book, discovery>>
  /\ UNCHANGED <<execVars, callVars, serveVars>>

(***************************************************************************)
(* One call through execute_call: src/runtime/mod.rs, src/book/runtime.rs, *)
(* src/runtime/cmd.rs                                                      *)
(*                                                                         *)
(* A String is held as a sequence of tokens: a token is a piece of literal *)
(* text or one match of ARG_VALUE_PARSER (a placeholder).  The empty       *)
(* string is <<>>.                                                         *)
(***************************************************************************)
Lit(s) == [kind |-> "lit", name |-> s, has_default |-> FALSE, default |-> <<>>]

\* ${name} and ${name or default}
ArgVar(n) == [kind |-> "arg", name |-> n, has_default |-> FALSE, default |-> <<>>]

ArgVarOr(n, d) == [kind |-> "arg", name |-> n, has_default |-> TRUE, default |-> <<Lit(d)>>]

\* ${env.NAME} and ${env.NAME or default}
EnvVar(n) == [kind |-> "env", name |-> n, has_default |-> FALSE, default |-> <<>>]

EnvVarOr(n, d) == [kind |-> "env", name |-> n, has_default |-> TRUE, default |-> <<Lit(d)>>]

\* the string made of the one literal s
Str(s) == <<Lit(s)>>

\* ARG_VALUE_PARSER matches this token
IsPlaceholder(tok) == tok.kind # "lit"

\* parameter / argument names, in BTreeMap<String, _> key order
ParamNameOrder == <<"a", "b">>

ParamNames == Range(ParamNameOrder)

\* Function.parameters: name -> Parameter (only `required` is read here)
ParameterMaps ==
  UNION {[S -> [required : BOOLEAN]] : S \in SUBSET ParamNames}

\* values a caller supplies for an argument
ArgValues == {Str("v"), <<>>}

\* values a caller can also send: the text of a placeholder of the template,
\* and the word CommandLine::from_vec reads as the sudo flag
CraftedValues == {<<ArgVarOr("b", "d")>>, Str("sudo")}

\* Call.function.arguments: BTreeMap<String, String>
ArgumentMaps ==
  UNION {[S -> ArgValues] : S \in SUBSET ParamNames}
    \cup {[a |-> c] : c \in CraftedValues}
    \cup {[a |-> c, b |-> Str("v")] : c \in CraftedValues}

\* the process environment read by std::env::var
ProcessEnv == [HOME |-> Str("/root")]

\* std::env::consts::OS
HostOS == "linux"

\* binaries which::which finds in the local PATH, with the path it returns
LocalBinaries == {"echo"}

which(app) ==
  IF Len(app) = 1 /\ app[1].kind = "lit" /\ app[1].name \in LocalBinaries
    THEN [found |-> TRUE, path |-> Str("/bin/" \o app[1].name)]
    ELSE [found |-> FALSE, path |-> app]

\* a validation that never looks for unknown arguments
validate_arguments_no_extra_check(parameters, provided_arguments) ==
  LET missing == SelectSeq(ParamNameOrder,
                   LAMBDA n : /\ n \in DOMAIN parameters
                              /\ parameters[n].required
                              /\ n \notin DOMAIN provided_arguments)
  IN IF missing # <<>>
       THEN [ok |-> FALSE, error |-> "missing required argument", name |-> Head(missing)]
       ELSE [ok |-> TRUE, error |-> "", name |-> ""]

\* FunctionRef::validate_arguments
validate_arguments(parameters, provided_arguments) ==
  LET missing == SelectSeq(ParamNameOrder,
                   LAMBDA n : /\ n \in DOMAIN parameters
                              /\ parameters[n].required
                              /\ n \notin DOMAIN provided_arguments)
      extra   == SelectSeq(ParamNameOrder,
                   LAMBDA n : /\ n \in DOMAIN provided_arguments
                              /\ n \notin DOMAIN parameters)
  IN IF missing # <<>>
       THEN [ok |-> FALSE, error |-> "missing required argument", name |-> Head(missing)]
     ELSE IF extra # <<>>
       THEN [ok |-> FALSE, error |-> "unknown argument", name |-> Head(extra)]
     ELSE [ok |-> TRUE, error |-> "", name |-> ""]

\* ExecutionContext::get_command_line
get_command_line(execution) ==
  IF execution.kind = "cmdline"
    THEN [ok |-> TRUE, cmdline |-> execution.cmdline]
  ELSE IF HostOS \in DOMAIN execution.platforms
    THEN [ok |-> TRUE, cmdline |-> execution.platforms[HostOS]]
  ELSE [ok |-> FALSE, cmdline |-> <<>>]

\* a replacement that keeps an empty supplied value even when a default exists
placeholder_replacement_empty_value_wins(tok, arguments, env) ==
  IF tok.kind = "env"
    THEN IF tok.name \in DOMAIN ProcessEnv
           THEN [ok |-> TRUE, error |-> "", name |-> "",
                 replacement |-> ProcessEnv[tok.name],
                 env |-> MapInsert(env, tok.name, ProcessEnv[tok.name])]
         ELSE IF tok.has_default
           THEN [ok |-> TRUE, error |-> "", name |-> "",
                 replacement |-> tok.default,
                 env |-> MapInsert(env, tok.name, tok.default)]
         ELSE [ok |-> FALSE, error |-> "environment variable not set",
               name |-> tok.name, replacement |-> <<>>, env |-> env]
  ELSE IF tok.name \in DOMAIN arguments
    THEN [ok |-> TRUE, error |-> "", name |-> "",
          replacement |-> arguments[tok.name], env |-> env]
  ELSE IF tok.has_default
    THEN [ok |-> TRUE, error |-> "", name |-> "",
          replacement |-> tok.default, env |-> env]
  ELSE [ok |-> FALSE, error |-> "argument not provided",
        name |-> tok.name, replacement |-> <<>>, env |-> env]

\* resolve_command_line: the replacement computed for one regex match
placeholder_replacement(tok, arguments, env) ==
  IF tok.kind = "env"
    THEN IF tok.name \in DOMAIN ProcessEnv
           THEN [ok |-> TRUE, error |-> "", name |-> "",
                 replacement |-> ProcessEnv[tok.name],
                 env |-> MapInsert(env, tok.name, ProcessEnv[tok.name])]
         ELSE IF tok.has_default
           THEN [ok |-> TRUE, error |-> "", name |-> "",
                 replacement |-> tok.default,
                 env |-> MapInsert(env, tok.name, tok.default)]
         ELSE [ok |-> FALSE, error |-> "environment variable not set",
               name |-> tok.name, replacement |-> <<>>, env |-> env]
  ELSE IF tok.name \in DOMAIN arguments
    THEN [ok |-> TRUE, error |-> "", name |-> "",
          replacement |-> IF arguments[tok.name] = <<>> /\ tok.has_default
                            THEN tok.default ELSE arguments[tok.name],
          env |-> env]
  ELSE IF tok.has_default
    THEN [ok |-> TRUE, error |-> "", name |-> "",
          replacement |-> tok.default, env |-> env]
  ELSE [ok |-> FALSE, error |-> "argument not provided",
        name |-> tok.name, replacement |-> <<>>, env |-> env]

\* resolve_command_line: `for caps in ARG_VALUE_PARSER.captures_iter(&arg)`
RECURSIVE collect_replacements(_, _, _, _)
collect_replacements(matches, arguments, env, replacements) ==
  IF matches = <<>>
    THEN [ok |-> TRUE, error |-> "", name |-> "",
          replacements |-> replacements, env |-> env]
  ELSE LET r == placeholder_replacement(Head(matches), arguments, env)
       IN IF r.ok
            THEN collect_replacements(
                   Tail(matches), arguments, r.env,
                   Append(replacements,
                          [pattern |-> Head(matches), replacement |-> r.replacement]))
            ELSE [ok |-> FALSE, error |-> r.error, name |-> r.name,
                  replacements |-> <<>>, env |-> env]

\* str::replace(pattern, replacement): every occurrence of the pattern
RECURSIVE str_replace(_, _, _)
str_replace(text, pattern, replacement) ==
  IF text = <<>> THEN <<>>
  ELSE (IF Head(text) = pattern THEN replacement ELSE <<Head(text)>>)
         \o str_replace(Tail(text), pattern, replacement)

\* resolve_command_line: `for (pattern, replacement) in replacements`
RECURSIVE apply_replacements(_, _)
apply_replacements(processed_arg, replacements) ==
  IF replacements = <<>> THEN processed_arg
  ELSE apply_replacements(
         str_replace(processed_arg, Head(replacements).pattern,
                     Head(replacements).replacement),
         Tail(replacements))

\* resolve_command_line: `for arg in command_line`
RECURSIVE interpolate(_, _, _, _)
interpolate(argv, arguments, env, interpolated) ==
  IF argv = <<>>
    THEN [ok |-> TRUE, error |-> "", name |-> "",
          interpolated |-> interpolated, env |-> env]
  ELSE LET arg == Head(argv)
       IN IF \E i \in DOMAIN arg : IsPlaceholder(arg[i])
            THEN LET c == collect_replacements(SelectSeq(arg, IsPlaceholder),
                                               arguments, env, <<>>)
                 IN IF c.ok
                      THEN interpolate(Tail(argv), arguments, c.env,
                                       Append(interpolated,
                                              apply_replacements(arg, c.replacements)))
                      ELSE [ok |-> FALSE, error |-> c.error, name |-> c.name,
                            interpolated |-> <<>>, env |-> env]
            ELSE interpolate(Tail(argv), arguments, env,
                             Append(interpolated, arg))

\* CommandLine::from_vec: `for arg in vec`
RECURSIVE from_vec_scan(_, _, _, _)
from_vec_scan(vec, sudo, app, args) ==
  IF vec = <<>> THEN [sudo |-> sudo, app |-> app, args |-> args]
  ELSE LET arg == Head(vec)
       IN IF arg = Str("sudo") THEN from_vec_scan(Tail(vec), TRUE, app, args)
          ELSE IF app = <<>> THEN from_vec_scan(Tail(vec), sudo, arg, args)
          ELSE from_vec_scan(Tail(vec), sudo, app, Append(args, arg))

\* no temporary env file was created
NoEnvFile == [state |-> "none", contents |-> <<>>]

NoCommandLine ==
  [sudo |-> FALSE, app |-> <<>>, app_in_path |-> FALSE, args |-> <<>>,
   env |-> <<>>, temp_env_file |-> FALSE]

\* CommandLine::from_vec_with_env
from_vec_with_env(vec, env) ==
  IF vec = <<>>
    THEN [ok |-> FALSE, error |-> "empty command line", name |-> "",
          command_line |-> NoCommandLine]
  ELSE LET scan == from_vec_scan(vec, FALSE, <<>>, <<>>)
       IN IF scan.app = <<>>
            THEN [ok |-> FALSE, error |-> "could not determine application name",
                  name |-> "", command_line |-> NoCommandLine]
            ELSE [ok |-> TRUE, error |-> "", name |-> "",
                  command_line |->
                    [sudo |-> scan.sudo, app |-> which(scan.app).path,
                     app_in_path |-> which(scan.app).found, args |-> scan.args,
                     env |-> env, temp_env_file |-> FALSE]]

\* FunctionRef::resolve_command_line
resolve_command_line(func, arguments) ==
  LET raw == get_command_line(func.execution)
  IN IF ~raw.ok
       THEN [ok |-> FALSE, error |-> "no command line for platform",
             name |-> HostOS, command_line |-> NoCommandLine]
     ELSE LET r == interpolate(raw.cmdline, arguments, <<>>, <<>>)
          IN IF ~r.ok
               THEN [ok |-> FALSE, error |-> r.error, name |-> r.name,
                     command_line |-> NoCommandLine]
               ELSE from_vec_with_env(r.interpolated, r.env)

\* a planner that forgets the forced container
plan_needs_container_no_force(ssh_has_app, cmd, is_interactive, container) ==
  IF ssh_has_app THEN FALSE
  ELSE IF cmd.sudo /\ ~is_interactive THEN TRUE
  ELSE IF ~cmd.app_in_path THEN TRUE
  ELSE FALSE

\* execute_call: "validate runtime requirements", the value of needs_container
plan_needs_container(ssh_has_app, cmd, is_interactive, container) ==
  IF ssh_has_app THEN FALSE
  ELSE IF cmd.sudo /\ ~is_interactive THEN TRUE
  ELSE IF ~cmd.app_in_path THEN TRUE
  ELSE IF container.present /\ container.force THEN TRUE
  ELSE FALSE

NoContainer ==
  [present |-> FALSE, force |-> FALSE, preserve_app |-> FALSE,
   volumes |-> <<>>, args |-> <<>>]

\* Container.volumes and Container.args of a container that has them
ContainerVolumes == <<Str("/a:/a"), Str("/b:/b")>>

ContainerArgs == <<Str("--net=host")>>

\* Function.container: Option<Container>
Containers ==
  {NoContainer}
    \cup [present : {TRUE}, force : BOOLEAN, preserve_app : BOOLEAN,
          volumes : {<<>>}, args : {<<>>}]
    \cup [present : {TRUE}, force : {TRUE}, preserve_app : BOOLEAN,
          volumes : {ContainerVolumes}, args : {ContainerArgs}]

\* cmdline templates of the functions called
CmdLines ==
  { <<Str("echo"), <<ArgVar("a")>>>>,
    <<Str("sudo"), Str("echo"), <<ArgVarOr("a", "d")>>>>,
    <<Str("nmap"), <<EnvVar("HOME")>>, <<ArgVarOr("b", "d")>>>>,
    <<Str("sudo"), Str("nmap"), <<Lit("-p"), ArgVar("b")>>>>,
    <<Str("echo"), <<EnvVar("UNSET")>>>>,
    <<Str("echo"), <<EnvVarOr("UNSET", "d")>>>>,
    <<Str("echo"), <<EnvVarOr("UNSET", "d")>>, <<EnvVar("HOME")>>>>,
    <<Str("echo"), Str("sudo"), Str("x")>>,
    <<Str("echo"), <<ArgVar("a"), Lit(":"), ArgVarOr("b", "d")>>>>,
    <<>> }

\* Function.execution: ExecutionContext
Executions ==
  {[kind |-> "cmdline", cmdline |-> c] : c \in CmdLines}
    \cup {[kind |-> "platforms", platforms |-> [windows |-> <<Str("echo")>>]]}

Functions ==
  [parameters : ParameterMaps, container : Containers, execution : Executions]

\* the book of the call: one page holding test_function
TestBook(f) ==
  <<[path |-> 1, name |-> "test_page", categories |-> <<>>,
     functions |-> [test_function |-> f]]>>

Calls ==
  [id : {"call1"}, name : {"test_function", "non_existent_function"},
   arguments : ArgumentMaps]

NoCallResult ==
  [kind |-> "none", error |-> "", name |-> "", call_id |-> "none", content |-> ""]

\* Ok(CallResultMessage { role: "tool", call_id: call.id.clone(), content })
CallOk(content) ==
  [kind |-> "ok", error |-> "", name |-> "", call_id |-> call.id, content |-> content]

CallErr(error, name) ==
  [kind |-> "err", error |-> error, name |-> name, call_id |-> "none", content |-> ""]

CallPanic ==
  [kind |-> "panic", error |-> "", name |-> "", call_id |-> "none", content |-> ""]

CallIdle ==
  /\ interactive = FALSE
  /\ ssh = FALSE
  /\ call = [id |-> "none", name |-> "", arguments |-> <<>>]
  /\ cpc = "idle"
  /\ function = [found |-> FALSE]
  /\ command_line = NoCommandLine
  /\ can_ssh = FALSE
  /\ needs_container = FALSE
  /\ result = NoCallResult
  /\ trace = <<>>
  /\ batch_ret = [ret |-> "pending", results |-> <<>>]
  /\ env_file = NoEnvFile

\* a drop that leaves the file of the NamedTempFile behind
drop_command_line_leaks(cmdline, file) == file

\* Drop of a CommandLine: its NamedTempFile, when it holds one, deletes the file
drop_command_line(cmdline, file) ==
  IF cmdline.temp_env_file THEN [file EXCEPT !.state = "removed"] ELSE file

\* no GET of the catalog was answered, no remote was parsed
ServeIdle ==
  /\ http = [filter |-> NoFilter, query |-> <<>>, status |-> 0,
             flavor |-> "", tools |-> <<>>]
  /\ remote = [input |-> <<>>, key_exists |-> FALSE, result |-> [kind |-> "none"]]

\* execute_call returns `res` through exit `exit`: the scope guard is dropped,
\* and the locals with it; `file` is the env file once they are dropped
ReturnWith(res, exit, file) ==
  /\ result' = res
  /\ ACTIVE_TASKS' = ScopeCallDrop(ACTIVE_TASKS, exit)
  /\ cpc' = "done"
  /\ env_file' = file

\* execute_call returns while it holds `command_line`
Return(res, exit) ==
  ReturnWith(res, exit, drop_command_line(command_line, env_file))

\* the steps of the call so far, with `step` added
Did(step) == trace' = Append(trace, step)

\* wait_for_available_tasks: one turn of the loop
call_wait ==
  /\ cpc = "wait"
  /\ cpc' = IF HasAvailableSlot(ACTIVE_TASKS, max_running_tasks)
              THEN "admitted" ELSE "sleep"
  /\ UNCHANGED <<ACTIVE_TASKS, max_running_tasks, task, batches>>
  /\ UNCHANGED <<interactive, ssh, call, function, command_line, can_ssh,
                 needs_container, result, trace, batch_ret, env_file>>
  /\ UNCHANGED <<loadVars, serveVars>>

\* tokio::time::sleep(wait) elapsed
call_sleep_elapsed ==
  /\ cpc = "sleep"
  /\ cpc' = "wait"
  /\ UNCHANGED <<ACTIVE_TASKS, max_running_tasks, task, batches>>
  /\ UNCHANGED <<interactive, ssh, call, function, command_line, can_ssh,
                 needs_container, result, trace, batch_ret, env_file>>
  /\ UNCHANGED <<loadVars, serveVars>>

\* a call of another batch leaves execute_call and gives its slot back
other_call_exit ==
  /\ cpc \in {"wait", "sleep", "admitted"}
  /\ ACTIVE_TASKS > 0
  /\ ACTIVE_TASKS' = fetch_sub(ACTIVE_TASKS)
  /\ UNCHANGED <<max_running_tasks, task, batches>>
  /\ UNCHANGED callVars
  /\ UNCHANGED <<loadVars, serveVars>>

\* ACTIVE_TASKS.fetch_add(1); defer! { fetch_sub }
call_enter ==
  /\ cpc = "admitted"
  /\ ACTIVE_TASKS' = fetch_add(ACTIVE_TASKS)
  /\ cpc' = "get_function"
  /\ UNCHANGED <<max_running_tasks, task, batches>>
  /\ UNCHANGED <<interactive, ssh, call, function, command_line, can_ssh,
                 needs_container, result, trace, batch_ret, env_file>>
  /\ UNCHANGED <<loadVars, serveVars>>

\* let function = book.get_function(&call.function.name)?;
call_get_function ==
  /\ cpc = "get_function"
  /\ Did("get_function")
  /\ LET f == get_function(pages, call.name)
     IN IF f.found
          THEN /\ function' = f
               /\ cpc' = "validate_arguments"
               /\ UNCHANGED <<ACTIVE_TASKS, result, env_file>>
          ELSE /\ Return(CallErr("function not found", call.name), "unknown function")
               /\ UNCHANGED function
  /\ UNCHANGED <<max_running_tasks, task, batches>>
  /\ UNCHANGED <<interactive, ssh, call, command_line, can_ssh, needs_container,
                 batch_ret>>
  /\ UNCHANGED <<loadVars, serveVars>>

\* function.validate_arguments(&call.function.arguments)?;
call_validate_arguments ==
  /\ cpc = "validate_arguments"
  /\ Did("validate_arguments")
  /\ LET v == validate_arguments(function.function.parameters, call.arguments)
     IN IF v.ok
          THEN /\ cpc' = "resolve_command_line"
               /\ UNCHANGED <<ACTIVE_TASKS, result, env_file>>
          ELSE Return(CallErr(v.error, v.name), "argument validation")
  /\ UNCHANGED <<max_running_tasks, task, batches>>
  /\ UNCHANGED <<interactive, ssh, call, function, command_line, can_ssh,
                 needs_container, batch_ret>>
  /\ UNCHANGED <<loadVars, serveVars>>

\* let command_line = function.resolve_command_line(&call.function.arguments)?;
call_resolve_command_line ==
  /\ cpc = "resolve_command_line"
  /\ Did("resolve_command_line")
  /\ LET r == resolve_command_line(function.function, call.arguments)
     IN IF r.ok
          THEN /\ command_line' = r.command_line
               /\ cpc' = "plan"
               /\ UNCHANGED <<ACTIVE_TASKS, result, env_file>>
          ELSE /\ Return(CallErr(r.error, r.name), "template resolution")
               /\ UNCHANGED command_line
  /\ UNCHANGED <<max_running_tasks, task, batches>>
  /\ UNCHANGED <<interactive, ssh, call, function, can_ssh, needs_container,
                 batch_ret>>
  /\ UNCHANGED <<loadVars, serveVars>>

\* "validate runtime requirements": the ssh probe, then needs_container
call_plan ==
  /\ cpc = "plan"
  /\ \E probe \in IF ssh THEN {"in path", "not in path", "error"} ELSE {"no ssh"} :
       /\ trace' = IF ssh THEN Append(trace, "ssh.app_in_path") ELSE trace
       /\ IF probe = "error"
            THEN /\ Return(CallErr("ssh probe failed", ""), "ssh probe")
                 /\ UNCHANGED <<can_ssh, needs_container>>
            ELSE /\ can_ssh' = (probe = "in path")
                 /\ needs_container' =
                      plan_needs_container(probe = "in path", command_line,
                                           interactive, function.function.container)
                 /\ cpc' = "container"
                 /\ UNCHANGED <<ACTIVE_TASKS, result, env_file>>
  /\ UNCHANGED <<max_running_tasks, task, batches>>
  /\ UNCHANGED <<interactive, ssh, call, function, command_line, batch_ret>>
  /\ UNCHANGED <<loadVars, serveVars>>

\* the path which::which returns for the container runtime
RuntimePath == Str("/bin/docker")

\* ContainerSource::image() of the function's container
ContainerImage == Str("test_image")

\* format!("--env-file={}", temp_file.path().display())
EnvFileArg == Str("--env-file=<temp>")

\* the keys of the overlay in the order a BTreeMap iterates them
EnvKeyOrder == <<"HOME", "UNSET">>

\* Container::wrap: `env_contents`, a line `{key}={value}\n` per entry
env_contents(env) ==
  LET keys == SelectSeq(EnvKeyOrder, LAMBDA k : k \in DOMAIN env)
  IN [i \in 1..Len(keys) |-> <<Lit(keys[i]), Lit("=")>> \o env[keys[i]]]

\* a wrap that puts the image in front of the volumes and the extra args
wrap_image_first(container, cmdline) ==
  [sudo |-> FALSE, app |-> RuntimePath, app_in_path |-> TRUE,
   args |-> <<Str("run"), Str("--rm")>>
              \o (IF DOMAIN cmdline.env # {} THEN <<EnvFileArg>> ELSE <<>>)
              \o <<ContainerImage>>
              \o [i \in 1..Len(container.volumes) |->
                    <<Lit("-v")>> \o container.volumes[i]]
              \o container.args
              \o (IF container.preserve_app THEN <<cmdline.app>> ELSE <<>>)
              \o cmdline.args,
   env |-> <<>>,
   temp_env_file |-> (DOMAIN cmdline.env # {})]

\* Container::wrap: the CommandLine it returns
wrap(container, cmdline) ==
  [sudo |-> FALSE, app |-> RuntimePath, app_in_path |-> TRUE,
   args |-> <<Str("run"), Str("--rm")>>
              \o (IF DOMAIN cmdline.env # {} THEN <<EnvFileArg>> ELSE <<>>)
              \o [i \in 1..Len(container.volumes) |->
                    <<Lit("-v")>> \o container.volumes[i]]
              \o container.args
              \o <<ContainerImage>>
              \o (IF container.preserve_app THEN <<cmdline.app>> ELSE <<>>)
              \o cmdline.args,
   env |-> <<>>,
   temp_env_file |-> (DOMAIN cmdline.env # {})]

\* Container::wrap: the env file when wrap returns `dockerized`; the file it
\* wrote lives on only through the handle moved into `dockerized`
wrap_env_file(cmdline, dockerized) ==
  IF DOMAIN cmdline.env = {} THEN NoEnvFile
  ELSE [state |-> IF dockerized.temp_env_file THEN "exists" ELSE "removed",
        contents |-> env_contents(cmdline.env)]

\* Container::wrap: the ways it fails; writing fails only once the file exists
WrapFailures(cmdline) ==
  {"runtime not found"}
    \cup (IF DOMAIN cmdline.env # {} THEN {"write env file"} ELSE {})

\* Vec<String>::join(sep)
RECURSIVE join(_, _)
join(parts, sep) ==
  IF parts = <<>> THEN ""
  ELSE IF Len(parts) = 1 THEN parts[1]
  ELSE parts[1] \o sep \o join(Tail(parts), sep)

\* the text of `parts.join("\n")` in CommandLine::execute and
\* SSHConnection::execute; `status` is the exit status as it is formatted
output_content(success, status, stdout, stderr) ==
  join((IF ~success THEN <<"EXIT CODE: " \o status>> ELSE <<>>)
         \o (IF stdout # "" THEN <<stdout>> ELSE <<>>)
         \o (IF stderr # ""
               THEN <<IF success THEN stderr ELSE "ERROR: " \o stderr>>
               ELSE <<>>),
       "\n")

\* what a finished process hands back: exit code, stdout and stderr
ProcessOutputs == [code : {0, 1}, stdout : {"", "out"}, stderr : {"", "err"}]

\* format!("{}", output.status): Display of std::process::ExitStatus
ExitStatusDisplay(code) == "exit status: " \o ToString(code)

\* format!("{}", result.exit_status): the u32 of the remote command
ExitCodeDisplay(code) == ToString(code)

\* the output of the process, as kept in the trace of the call
OutputStep(out) ==
  "output: " \o ToString(out.code) \o "|" \o out.stdout \o "|" \o out.stderr

\* a planner step that runs the command as it is when there is no container
call_container_fallback_local ==
  /\ cpc = "container"
  /\ IF ~needs_container \/ ~function.function.container.present
       THEN /\ cpc' = "confirm"
            /\ UNCHANGED <<ACTIVE_TASKS, result, env_file>>
       ELSE /\ cpc' = "container.resolve"
            /\ UNCHANGED <<ACTIVE_TASKS, result, env_file>>

\* "wrap the command line in a container if needed": the match on `container`
call_container_required ==
  /\ cpc = "container"
  /\ IF ~needs_container
       THEN /\ cpc' = "confirm"
            /\ UNCHANGED <<ACTIVE_TASKS, result, env_file>>
     ELSE IF ~function.function.container.present
       THEN Return(CallErr("container required", call.name), "container required")
     ELSE /\ cpc' = "container.resolve"
          /\ UNCHANGED <<ACTIVE_TASKS, result, env_file>>

call_container ==
  /\ call_container_required
  /\ UNCHANGED <<max_running_tasks, task, batches>>
  /\ UNCHANGED <<interactive, ssh, call, function, command_line, can_ssh,
                 needs_container, trace, batch_ret>>
  /\ UNCHANGED <<loadVars, serveVars>>

\* container.resolve().await?: the image is pulled or built by a subprocess
call_container_resolve ==
  /\ cpc = "container.resolve"
  /\ Did("container.resolve")
  /\ \E ok \in BOOLEAN :
       IF ok THEN /\ cpc' = "container.wrap"
                  /\ UNCHANGED <<ACTIVE_TASKS, result, env_file>>
             ELSE Return(CallErr("container resolve failed", ""), "container resolve")
  /\ UNCHANGED <<max_running_tasks, task, batches>>
  /\ UNCHANGED <<interactive, ssh, call, function, command_line, can_ssh,
                 needs_container, batch_ret>>
  /\ UNCHANGED <<loadVars, serveVars>>

\* container.wrap(command_line)?
call_container_wrap ==
  /\ cpc = "container.wrap"
  /\ Did("container.wrap")
  /\ \/ LET dockerized == wrap(function.function.container, command_line)
        IN /\ command_line' = dockerized
           /\ env_file' = wrap_env_file(command_line, dockerized)
           /\ cpc' = "confirm"
           /\ UNCHANGED <<ACTIVE_TASKS, result>>
     \/ \E failure \in WrapFailures(command_line) :
          /\ ReturnWith(CallErr("container wrap failed", ""), "container wrap",
                        IF failure = "write env file"
                          THEN [state |-> "removed", contents |-> <<>>]
                          ELSE env_file)
          /\ UNCHANGED command_line
  /\ UNCHANGED <<max_running_tasks, task, batches>>
  /\ UNCHANGED <<interactive, ssh, call, function, can_ssh, needs_container,
                 batch_ret>>
  /\ UNCHANGED <<loadVars, serveVars>>

\* `if interactive && prompt::ask(..)? != "y"`: ask is entered when interactive
call_confirm ==
  /\ cpc = "confirm"
  /\ IF interactive
       THEN /\ Did("prompt::ask")
            /\ cpc' = "prompt"
       ELSE /\ cpc' = "execute"
            /\ UNCHANGED trace
  /\ UNCHANGED <<ACTIVE_TASKS, result, env_file>>
  /\ UNCHANGED <<max_running_tasks, task, batches>>
  /\ UNCHANGED <<interactive, ssh, call, function, command_line, can_ssh,
                 needs_container, batch_ret>>
  /\ UNCHANGED <<loadVars, serveVars>>

\* the lines a user types at the prompt
UserLines == {"y", "Y", "n", "x"}

\* user_input.trim().to_lowercase()
to_choice(user_input) == IF user_input = "Y" THEN "y" ELSE user_input

\* the `choices` execute_call hands to prompt::ask
PromptChoices == {"y", "n"}

\* the lines read by prompt::ask so far that were not a valid choice
Rejected ==
  Cardinality({i \in DOMAIN trace :
                 trace[i] \in {"read_line: " \o l : l \in UserLines}
                 /\ trace[i] \notin {"read_line: " \o l :
                                      l \in {u \in UserLines : to_choice(u) \in PromptChoices}}})

\* prompt::ask: one turn of its loop, and what execute_call does with a choice
prompt_ask ==
  /\ cpc = "prompt"
  /\ \/ \E user_input \in UserLines :
          /\ to_choice(user_input) \notin PromptChoices => Rejected < MaxPrompts
          /\ Did("read_line: " \o user_input)
          /\ IF to_choice(user_input) \notin PromptChoices
               THEN /\ cpc' = "prompt"
                    /\ UNCHANGED <<ACTIVE_TASKS, result, env_file>>
             ELSE IF to_choice(user_input) # "y"
               THEN Return(CallOk("<command execution cancelled by user>"),
                           "cancelled by user")
             ELSE /\ cpc' = "execute"
                  /\ UNCHANGED <<ACTIVE_TASKS, result, env_file>>
     \/ /\ Return(CallErr("prompt failed", ""), "prompt io")
        /\ UNCHANGED trace
     \/ /\ Return(CallPanic, "panic")
        /\ UNCHANGED trace
  /\ UNCHANGED <<max_running_tasks, task, batches>>
  /\ UNCHANGED <<interactive, ssh, call, function, command_line, can_ssh,
                 needs_container, batch_ret>>
  /\ UNCHANGED <<loadVars, serveVars>>

\* "finally execute the command line": over ssh or locally
call_execute ==
  /\ cpc = "execute"
  /\ Did(IF can_ssh THEN "ssh.execute" ELSE "command_line.execute")
  /\ \/ Return(CallErr("execution failed", ""), "execution error")
     \/ /\ cpc' = "running"
        /\ UNCHANGED <<ACTIVE_TASKS, result, env_file>>
  /\ UNCHANGED <<max_running_tasks, task, batches>>
  /\ UNCHANGED <<interactive, ssh, call, function, command_line, can_ssh,
                 needs_container, batch_ret>>
  /\ UNCHANGED <<loadVars, serveVars>>

\* `command.output().await` / `session.execute(..).await` of the spawned
\* process resolves: the `?` on it, then the content built from the output
call_output ==
  /\ cpc = "running"
  /\ \/ /\ Return(CallErr("execution failed", ""), "execution error")
        /\ UNCHANGED trace
     \/ \E out \in ProcessOutputs :
          /\ Did(OutputStep(out))
          /\ Return(CallOk(output_content(
                             out.code = 0,
                             IF can_ssh THEN ExitCodeDisplay(out.code)
                                        ELSE ExitStatusDisplay(out.code),
                             out.stdout, out.stderr)),
                    "success")
  /\ UNCHANGED <<max_running_tasks, task, batches>>
  /\ UNCHANGED <<interactive, ssh, call, function, command_line, can_ssh,
                 needs_container, batch_ret>>
  /\ UNCHANGED <<loadVars, serveVars>>

\* execute(vec![call]): join_all resolved, the result loop runs
call_batch_return ==
  /\ cpc = "done"
  /\ batch_ret' = execute_collect(<<result>>, <<>>)
  /\ cpc' = "returned"
  /\ UNCHANGED execVars
  /\ UNCHANGED <<interactive, ssh, call, function, command_line, can_ssh,
                 needs_container, result, trace, env_file>>
  /\ UNCHANGED <<loadVars, serveVars>>

(***************************************************************************)
(* The executor specification.                                             *)
(***************************************************************************)
Init ==
  /\ ExecIdle
  /\ max_running_tasks \in 1..MaxRunning
  /\ LoadIdle
  /\ CallIdle
  /\ ServeIdle

Next ==
  \/ \E n \in 1..MaxTasks : \E ids \in [1..n -> CallIds] : execute_spawn(ids)
  \/ \E t \in Tasks : wait_for_available_tasks(t)
  \/ \E t \in Tasks : wait_sleep_elapsed(t)
  \/ \E t \in Tasks : execute_call_enter(t)
  \/ \E t \in Tasks : execute_call_exit(t)
  \/ \E b \in 1..MaxTasks : execute_return(b)

Spec == Init /\ [][Next]_vars

(***************************************************************************)
(* Properties of the executor, under Spec.                                 *)
(***************************************************************************)
Returned(b) == b \in DOMAIN batches /\ batches[b].ret # "pending"

KindsOf(b) == [i \in 1..Len(batches[b].calls) |-> task[TaskAt(b, i)].result.kind]

CountKind(b, k) == Cardinality({i \in DOMAIN KindsOf(b) : KindsOf(b)[i] = k})

\* C1: at any time at most max_running_tasks tasks are between the increment
\* of ACTIVE_TASKS and their exit from execute_call.
C1_AdmissionCap == Cardinality(Inside) <= max_running_tasks

\* C2: the counter equals the number of admitted tasks still inside
\* execute_call, never underflows, and is 0 when no call is in flight.
C2_CounterRelease ==
  /\ ACTIVE_TASKS = Cardinality(Inside)
  /\ ACTIVE_TASKS >= 0
  /\ ((\A t \in Spawned : Finished(t)) => ACTIVE_TASKS = 0)

\* two tasks have left by different exits (one of them a panic) while a third
\* still holds its slot
C2_Witness ==
  /\ \E t \in Tasks : Finished(t) /\ task[t].result.kind = "panic"
  /\ \E t \in Tasks : Finished(t) /\ task[t].result.kind = "err"
  /\ \E t \in Tasks : task[t].pc = "inside"
  /\ ACTIVE_TASKS = 1

\* C3: a batch that returns Ok has one result per call, result i echoing the
\* id of call i.
C3_BatchOrdering ==
  \A b \in DOMAIN batches :
    batches[b].ret = "Ok" =>
      /\ Len(batches[b].results) = Len(batches[b].calls)
      /\ \A i \in DOMAIN batches[b].results :
            batches[b].results[i].call_id = batches[b].calls[i]

\* C4: a returned batch is an error exactly when one of its tasks returned an
\* error, and then carries no results; a task whose join failed adds neither a
\* result nor an error.
C4_BatchFailurePropagation ==
  \A b \in DOMAIN batches :
    Returned(b) =>
      /\ (batches[b].ret = "Err") <=> (CountKind(b, "err") > 0)
      /\ batches[b].ret = "Err" => batches[b].results = <<>>
      /\ batches[b].ret = "Ok" => Len(batches[b].results) = CountKind(b, "ok")

\* a batch returned Ok although one of its tasks failed to join, and another
\* batch returned Err
C4_Witness ==
  /\ \E b \in DOMAIN batches :
        /\ batches[b].ret = "Ok"
        /\ CountKind(b, "panic") > 0
        /\ CountKind(b, "ok") > 0
  /\ \E b \in DOMAIN batches : batches[b].ret = "Err"

(***************************************************************************)
(* The loader specification.                                               *)
(***************************************************************************)
\* the characters of the root the catalog is loaded from
RootPath == <<"/", "r">>

\* an execution that resolves to a command line on every platform
Runnable == [kind |-> "cmdline", cmdline |-> <<Str("echo")>>]

\* the page file `file` stored as <root>/<i>/<stem>.yml, without categories
\* in its YAML and with runnable functions
Located(file, i) ==
  [stem |-> file.stem, yaml_name |-> file.yaml_name, functions |-> file.functions,
   dir |-> <<ToString(i)>>, categories |-> <<>>,
   executions |-> [key \in file.functions |-> Runnable],
   parameters |-> [key \in file.functions |-> YamlParameters(key)]]

InitLoad ==
  /\ ExecIdle
  /\ max_running_tasks = 1
  /\ \E n \in 0..MaxPages :
       \E files \in [1..n -> PageFiles] :
         page_files = [i \in 1..n |-> Located(files[i], i)]
  /\ discovery = [path |-> RootPath, filter |-> NoFilter,
                  entries |-> page_files, next |-> Len(page_files) + 1]
  /\ pages = <<>>
  /\ function_names = {}
  /\ book = "loading"
  /\ lookup = [name |-> "", result |-> [found |-> FALSE]]
  /\ CallIdle
  /\ ServeIdle

NextLoad ==
  \/ from_path_no_pages
  \/ from_path_load_page
  \/ from_path_return
  \/ get_function_call

SpecLoad == InitLoad /\ [][NextLoad]_vars

(***************************************************************************)
(* Properties of the loader and the lookup, under SpecLoad.                *)
(***************************************************************************)
\* the pages of the catalog that hold `name` as a key
PagesWith(name) == {i \in DOMAIN pages : name \in DOMAIN pages[i].functions}

CatalogNames == UNION {DOMAIN pages[i].functions : i \in DOMAIN pages}

\* C7: in a catalog that from_path returned, every function name is a key of
\* at most one page.
C7_GlobalNameUniqueness ==
  book = "Ok" => \A name \in CatalogNames : Cardinality(PagesWith(name)) <= 1

\* C8: a function of page i whose name is a key of an earlier page file is
\* found in the loaded page under <page_name>_<function_name>, and loading
\* does not get past page i when that renamed form is already a name of the
\* catalog built from the earlier pages.
C8_RenameAndSecondCollision ==
  \A i \in DOMAIN pages :
    \A f \in page_files[i].functions :
      (\E j \in 1..(i - 1) : f \in page_files[j].functions) =>
        LET renamed == NewFuncName(pages[i].name, f)
        IN /\ renamed \in DOMAIN pages[i].functions
           /\ pages[i].functions[renamed] = FunctionDef(i, f)
           /\ \A j \in 1..(i - 1) : renamed \notin DOMAIN pages[j].functions

\* C9: get_function returns the function of the first page in path order that
\* holds the name, and "not found" when no page holds it; with a.yml and b.yml
\* both defining run, run is a.yml's function and b_run is b.yml's.
C9_Lookup ==
  /\ lookup.name # "" =>
       IF PagesWith(lookup.name) = {}
         THEN ~lookup.result.found
         ELSE LET first == CHOOSE i \in PagesWith(lookup.name) :
                              \A j \in PagesWith(lookup.name) : i <= j
              IN /\ lookup.result.found
                 /\ lookup.result.path = first
                 /\ lookup.result.function = pages[first].functions[lookup.name]
  /\ ( /\ book = "Ok"
       /\ Len(page_files) >= 2
       /\ page_files[1].stem = "a" /\ page_files[1].yaml_name = ""
       /\ page_files[2].stem = "b" /\ page_files[2].yaml_name = ""
       /\ "run" \in page_files[1].functions
       /\ "run" \in page_files[2].functions )
     => /\ get_function(pages, "run").found
        /\ get_function(pages, "run").function = FunctionDef(1, "run")
        /\ get_function(pages, "b_run").found
        /\ get_function(pages, "b_run").function = FunctionDef(2, "run")

\* a.yml and b.yml both define run, and run was looked up in a catalog where
\* some name is held by two pages
C9_Witness ==
  /\ book = "Ok"
  /\ Len(page_files) >= 2
  /\ page_files[1].stem = "a" /\ page_files[1].yaml_name = ""
  /\ page_files[2].stem = "b" /\ page_files[2].yaml_name = ""
  /\ "run" \in page_files[1].functions
  /\ "run" \in page_files[2].functions
  /\ lookup.name = "b_run"
  /\ lookup.result.found
  /\ Cardinality(PagesWith("b_run")) = 2

\* the names from_path has seen before it comes to page file i
SeenBefore(i) == UNION {page_files[j].functions : j \in 1..(i - 1)}

\* what the pass over the names of page file i decides, from the files alone
PassOf(i) ==
  unique_names_pass(SortedKeys(page_files[i].functions), PageName(page_files[i]),
                    SeenBefore(i), <<>>)

\* page i as the files alone determine it: the renames applied in key order
PageOf(i) ==
  [path |-> i, name |-> PageName(page_files[i]),
   categories |-> PageCategories(page_files[i]),
   functions |-> apply_renames(ParsedFunctions(i), PassOf(i).renames,
                               SortedKeys(DOMAIN PassOf(i).renames))]

\* the page files at which the pass over the names fails
FailingFiles == {i \in DOMAIN page_files : PassOf(i).err}

\* C24: what from_path produces is a function of the files under the root:
\* every page it loads, with its names after renaming and the function bound
\* to each name, and whether and where it fails, are the same in every run,
\* in whatever order the renames of a page are applied.
C24_DeterministicLoading ==
  /\ \A i \in DOMAIN pages : pages[i] = PageOf(i)
  /\ \A i \in FailingFiles : Len(pages) < i
  /\ book = "Ok" => FailingFiles = {} /\ Len(pages) = Len(page_files)
  /\ book = "function name is not unique" => Len(pages) + 1 \in FailingFiles
  /\ book = "no pages found" => page_files = <<>>

\* a catalog was returned with a page in which two functions were renamed
C24_Witness ==
  /\ book = "Ok"
  /\ \E i \in DOMAIN pages :
       /\ Cardinality(DOMAIN PassOf(i).renames) = 2
       /\ Cardinality(DOMAIN pages[i].functions) = 2

(***************************************************************************)
(* The specification of one call.                                          *)
(***************************************************************************)
InitCall ==
  /\ max_running_tasks = 1
  /\ ACTIVE_TASKS \in 0..max_running_tasks
  /\ task = [t \in Tasks |-> IdleTask]
  /\ batches = <<>>
  /\ page_files = <<>>
  /\ \E f \in Functions : pages = TestBook(f)
  /\ function_names = {}
  /\ book = "Ok"
  /\ discovery = NoDiscovery
  /\ lookup = [name |-> "", result |-> [found |-> FALSE]]
  /\ interactive \in BOOLEAN
  /\ ssh \in BOOLEAN
  /\ call \in Calls
  /\ cpc = "wait"
  /\ function = [found |-> FALSE]
  /\ command_line = NoCommandLine
  /\ can_ssh = FALSE
  /\ needs_container = FALSE
  /\ result = NoCallResult
  /\ trace = <<>>
  /\ batch_ret = [ret |-> "pending", results |-> <<>>]
  /\ env_file = NoEnvFile
  /\ ServeIdle

NextCall ==
  \/ call_wait
  \/ call_sleep_elapsed
  \/ other_call_exit
  \/ call_enter
  \/ call_get_function
  \/ call_validate_arguments
  \/ call_resolve_command_line
  \/ call_plan
  \/ call_container
  \/ call_container_resolve
  \/ call_container_wrap
  \/ call_confirm
  \/ prompt_ask
  \/ call_execute
  \/ call_output
  \/ call_batch_return

SpecCall == InitCall /\ [][NextCall]_vars

(***************************************************************************)
(* Properties of one call.                                                 *)
(***************************************************************************)
\* the mode execute_call has chosen once needs_container is computed
ChosenMode ==
  IF can_ssh THEN "remote"
  ELSE IF needs_container THEN "container"
  ELSE "local"

\* the decision table, top to bottom, first hit wins
TableMode ==
  LET container == function.function.container
  IN IF ssh /\ can_ssh THEN "remote"
     ELSE IF container.present /\ container.force THEN "container"
     ELSE IF command_line.sudo /\ ~interactive THEN "container"
     ELSE IF ~command_line.app_in_path THEN "container"
     ELSE "local"

\* steps of execute_call that build, pull or wrap a container
ContainerSteps == {"container.resolve", "container.wrap"}

\* steps of execute_call that start a process or ask the user
SpawnSteps ==
  {"container.resolve", "container.wrap", "prompt::ask",
   "command_line.execute", "ssh.execute"}

\* C5: for every combination of remote set, remote has the binary, container
\* present, container.force, sudo, in_path and interactive, the mode chosen
\* by execute_call is the one the decision table gives; only the container
\* mode goes on to resolve and wrap a container, and a remote hit never does.
C5_ExecutionPlanner ==
  /\ cpc = "container" => ChosenMode = TableMode
  /\ cpc \in {"container.resolve", "container.wrap"} => ChosenMode = "container"
  /\ Range(trace) \cap ContainerSteps # {} => ChosenMode = "container"
  /\ can_ssh => ssh /\ ~needs_container

\* a forced container with the binary in the local PATH and no sudo: container
C5_Witness ==
  /\ cpc = "container"
  /\ ~can_ssh
  /\ function.function.container.present
  /\ function.function.container.force
  /\ command_line.app_in_path
  /\ ~command_line.sudo
  /\ needs_container

\* C6: when the mode is container because the command uses sudo in
\* non-interactive mode or its binary is not in the local PATH, and the
\* function has no container, the call fails with the "container required"
\* error naming the function, none of the container, prompt or execution
\* steps has run for it, and the batch holding the call fails.
C6_ContainerRequired ==
  (/\ cpc \in {"container.resolve", "container.wrap", "confirm", "execute",
               "done", "returned"}
   /\ function.found
   /\ needs_container
   /\ ~function.function.container.present)
    => /\ (command_line.sudo /\ ~interactive) \/ ~command_line.app_in_path
       /\ cpc \in {"done", "returned"}
       /\ result = CallErr("container required", call.name)
       /\ Range(trace) \cap SpawnSteps = {}
       /\ cpc = "returned" => batch_ret = [ret |-> "Err", results |-> <<>>]

\* a call that needed a container the function does not have, batch returned
C6_Witness ==
  /\ cpc = "returned"
  /\ needs_container
  /\ ~function.function.container.present
  /\ result.kind = "err"
  /\ result.error = "container required"
  /\ batch_ret.ret = "Err"

\* every required parameter is supplied and every supplied key is a parameter
ArgumentsValid ==
  LET parameters == function.function.parameters
  IN /\ \A n \in DOMAIN parameters :
          parameters[n].required => n \in DOMAIN call.arguments
     /\ DOMAIN call.arguments \subseteq DOMAIN parameters

\* C10: validate_arguments succeeds exactly when every required parameter is a
\* key of the supplied arguments and every supplied key is a parameter; when
\* it fails the error is a missing-argument error naming a required parameter
\* that is not supplied, or an unknown-argument error naming a supplied key
\* that is not a parameter, and resolve_command_line is never called.
C10_ArgumentValidation ==
  "validate_arguments" \in Range(trace) =>
    LET parameters == function.function.parameters
        v == validate_arguments(parameters, call.arguments)
    IN /\ v.ok <=> ArgumentsValid
       /\ ArgumentsValid =>
            \/ cpc = "resolve_command_line"
            \/ "resolve_command_line" \in Range(trace)
       /\ ~ArgumentsValid =>
            /\ cpc \in {"done", "returned"}
            /\ result.kind = "err"
            /\ \/ /\ result.error = "missing required argument"
                  /\ result.name \in DOMAIN parameters
                  /\ parameters[result.name].required
                  /\ result.name \notin DOMAIN call.arguments
               \/ /\ result.error = "unknown argument"
                  /\ result.name \in DOMAIN call.arguments
                  /\ result.name \notin DOMAIN parameters
            /\ "resolve_command_line" \notin Range(trace)

\* a call refused for an argument the function does not declare
C10_Witness ==
  /\ cpc = "done"
  /\ "validate_arguments" \in Range(trace)
  /\ result.kind = "err"
  /\ result.error = "unknown argument"
  /\ \A n \in DOMAIN function.function.parameters :
       function.function.parameters[n].required => n \in DOMAIN call.arguments

(***************************************************************************)
(* Properties of template resolution, under SpecCall.                      *)
(***************************************************************************)
\* the concatenation of a sequence of strings
RECURSIVE Concat(_)
Concat(strings) ==
  IF strings = <<>> THEN <<>> ELSE Head(strings) \o Concat(Tail(strings))

\* the placeholders of the function's command line, in order of appearance
TemplatePlaceholders ==
  LET raw == get_command_line(function.function.execution)
  IN SelectSeq(Concat(raw.cmdline), IsPlaceholder)

\* resolve_command_line has been called for the call
Resolved == function.found /\ "resolve_command_line" \in Range(trace)

\* no supplied value holds text that ARG_VALUE_PARSER matches
PlainValues ==
  \A n \in DOMAIN call.arguments :
    \A i \in DOMAIN call.arguments[n] : ~IsPlaceholder(call.arguments[n][i])

\* what an argument placeholder stands for, case by case
ArgumentText(tok) ==
  IF tok.name \in DOMAIN call.arguments
    THEN IF call.arguments[tok.name] # <<>>
           THEN [ok |-> TRUE, text |-> call.arguments[tok.name]]
         ELSE IF tok.has_default
           THEN [ok |-> TRUE, text |-> tok.default]
         ELSE [ok |-> TRUE, text |-> <<>>]
  ELSE IF tok.has_default
    THEN [ok |-> TRUE, text |-> tok.default]
  ELSE [ok |-> FALSE, text |-> <<>>]

\* one argv element with every argument placeholder replaced by its text
ArgumentElement(arg) ==
  Concat([i \in DOMAIN arg |->
            IF arg[i].kind = "arg" THEN ArgumentText(arg[i]).text ELSE <<arg[i]>>])

\* C11: an argument placeholder is replaced by the supplied value when it is
\* present and non-empty, by the default when the value is empty or absent
\* and a default exists, by the empty string when the value is empty and
\* there is no default; with the argument absent and no default the
\* resolution fails with the "argument not provided" error naming it.
C11_ArgumentPlaceholder ==
  (Resolved /\ get_command_line(function.function.execution).ok) =>
    LET raw  == get_command_line(function.function.execution).cmdline
        toks == TemplatePlaceholders
        args == {i \in DOMAIN toks : toks[i].kind = "arg"}
    IN /\ \A i \in args :
            LET r == placeholder_replacement(toks[i], call.arguments, <<>>)
                e == ArgumentText(toks[i])
            IN /\ r.ok = e.ok
               /\ r.ok => r.replacement = e.text /\ r.env = <<>>
               /\ ~r.ok => r.error = "argument not provided" /\ r.name = toks[i].name
       /\ (args = DOMAIN toks /\ PlainValues) =>
            /\ (\E i \in args : ~ArgumentText(toks[i]).ok) =>
                 /\ cpc \in {"done", "returned"}
                 /\ result.kind = "err"
                 /\ result.error = "argument not provided"
                 /\ \E i \in args : /\ ~ArgumentText(toks[i]).ok
                                    /\ result.name = toks[i].name
            /\ cpc = "plan" =>
                 /\ \A i \in args : ArgumentText(toks[i]).ok
                 /\ command_line =
                      from_vec_with_env([k \in DOMAIN raw |-> ArgumentElement(raw[k])],
                                        <<>>).command_line

\* an empty value for ${a or d}: the default "d" is the argument of the command
C11_Witness ==
  /\ cpc = "plan"
  /\ "a" \in DOMAIN call.arguments
  /\ call.arguments["a"] = <<>>
  /\ function.function.execution.kind = "cmdline"
  /\ function.function.execution.cmdline = <<Str("sudo"), Str("echo"), <<ArgVarOr("a", "d")>>>>
  /\ command_line.args = <<Str("d")>>

\* what an environment placeholder stands for: the value of the variable when
\* it is set, else the default
EnvironmentText(tok) ==
  IF tok.name \in DOMAIN ProcessEnv
    THEN [ok |-> TRUE, text |-> ProcessEnv[tok.name]]
  ELSE IF tok.has_default
    THEN [ok |-> TRUE, text |-> tok.default]
  ELSE [ok |-> FALSE, text |-> <<>>]

\* one argv element with every placeholder replaced by its text
ResolvedElement(arg) ==
  Concat([i \in DOMAIN arg |->
            IF arg[i].kind = "arg" THEN ArgumentText(arg[i]).text
            ELSE IF arg[i].kind = "env" THEN EnvironmentText(arg[i]).text
            ELSE <<arg[i]>>])

\* the overlay holding only the variables that were found set
OverlayOfSetVariables ==
  LET toks == TemplatePlaceholders
      set  == {toks[i].name : i \in {j \in DOMAIN toks :
                                       /\ toks[j].kind = "env"
                                       /\ toks[j].name \in DOMAIN ProcessEnv}}
  IN [n \in set |-> ProcessEnv[n]]

\* C12: ${env.X} with X set is replaced by its value and X -> value is put in
\* the overlay; with X unset and no default the resolution fails with the
\* "environment variable not set" error naming X; with X unset and a default
\* the default is substituted and the overlay gets no entry for X.
C12_EnvPlaceholder ==
  (Resolved /\ PlainValues /\ get_command_line(function.function.execution).ok) =>
    LET raw  == get_command_line(function.function.execution).cmdline
        toks == TemplatePlaceholders
        envs == {i \in DOMAIN toks : toks[i].kind = "env"}
    IN /\ (\E i \in envs : ~EnvironmentText(toks[i]).ok) =>
            /\ cpc \in {"done", "returned"}
            /\ result.kind = "err"
            /\ result.error = "environment variable not set" =>
                 \E i \in envs : /\ ~EnvironmentText(toks[i]).ok
                                 /\ result.name = toks[i].name
       /\ cpc = "plan" =>
            /\ \A i \in envs : EnvironmentText(toks[i]).ok
            /\ command_line =
                 from_vec_with_env([k \in DOMAIN raw |-> ResolvedElement(raw[k])],
                                   OverlayOfSetVariables).command_line

(***************************************************************************)
(* Properties of the confirmation and of execution, under SpecCall.        *)
(***************************************************************************)
\* the lines prompt::ask has read for the call, in order
LinesRead ==
  SelectSeq(trace, LAMBDA step : step \in {"read_line: " \o l : l \in UserLines})

\* the command of the call has been run, locally or over ssh
Executed == Range(trace) \cap {"command_line.execute", "ssh.execute"} # {}

\* the choice made of the last line read: trimmed and in lower case
LastChoice ==
  to_choice(CHOOSE l \in UserLines : LinesRead[Len(LinesRead)] = "read_line: " \o l)

\* C13: in interactive mode the user is prompted once, after planning and
\* before execution; a response other than 'y' makes execute_call return Ok
\* with the call's id and the content '<command execution cancelled by
\* user>', and the command is not run; it is run only after a 'y'.
C13_InteractiveConfirmation ==
  /\ Len(LinesRead) <= 1
  /\ LinesRead # <<>> => interactive /\ "resolve_command_line" \in Range(trace)
  /\ (LinesRead # <<>> /\ LastChoice # "y") =>
       /\ cpc \in {"done", "returned"}
       /\ result = CallOk("<command execution cancelled by user>")
       /\ ~Executed
  /\ (interactive /\ (Executed \/ cpc = "execute")) =>
       /\ LinesRead # <<>>
       /\ LastChoice = "y"

\* the command of the call has run to its end and handed back its output
HasOutput == \E out \in ProcessOutputs : OutputStep(out) \in Range(trace)

\* the output the command of the call handed back
Output == CHOOSE out \in ProcessOutputs : OutputStep(out) \in Range(trace)

\* C14: a command that exits, with status zero or not, gives an Ok result
\* whose content is the newline-join of "EXIT CODE: <code>" (iff the code is
\* not zero), stdout (iff non-empty) and stderr (iff non-empty, with the
\* prefix "ERROR: " iff the code is not zero), in this order, for the local
\* and for the remote execution alike; the batch of the call returns Ok.
C14_FailedCommandIsResult ==
  HasOutput =>
    /\ cpc \in {"done", "returned"}
    /\ result.kind = "ok"
    /\ result.call_id = call.id
    /\ result.content =
         join((IF Output.code # 0
                 THEN <<"EXIT CODE: " \o ToString(Output.code)>> ELSE <<>>)
                \o (IF Output.stdout # "" THEN <<Output.stdout>> ELSE <<>>)
                \o (IF Output.stderr = "" THEN <<>>
                    ELSE IF Output.code # 0 THEN <<"ERROR: " \o Output.stderr>>
                    ELSE <<Output.stderr>>),
              "\n")
    /\ cpc = "returned" => batch_ret.ret = "Ok" /\ Len(batch_ret.results) = 1

(***************************************************************************)
(* The discovery specification: Book::from_path from a directory root.     *)
(***************************************************************************)
\* an execution with an empty cmdline list
EmptyCmdline == [kind |-> "cmdline", cmdline |-> <<>>]

\* an execution with a platforms map that has no entry for the host
OtherPlatform == [kind |-> "platforms", platforms |-> [windows |-> <<Str("echo")>>]]

\* the *.yml files glob may find under the root, in the order it yields them
GlobEntries ==
  << [dir |-> <<".", "h">>, stem |-> "a", yaml_name |-> "", categories |-> <<>>,
      functions |-> {"run"}, executions |-> [run |-> Runnable],
      parameters |-> [run |-> YamlParameters("run")]],
     [dir |-> <<>>, stem |-> "a", yaml_name |-> "", categories |-> <<>>,
      functions |-> {"s_run"}, executions |-> [s_run |-> OtherPlatform],
      parameters |-> [s_run |-> YamlParameters("s_run")]],
     [dir |-> <<"c">>, stem |-> ".b", yaml_name |-> "", categories |-> <<>>,
      functions |-> {"run"}, executions |-> [run |-> Runnable],
      parameters |-> [run |-> YamlParameters("run")]],
     [dir |-> <<"c">>, stem |-> "a", yaml_name |-> "", categories |-> <<>>,
      functions |-> {"run"}, executions |-> [run |-> Runnable],
      parameters |-> [run |-> YamlParameters("run")]],
     [dir |-> <<"c", "/", "d">>, stem |-> "b", yaml_name |-> "s",
      categories |-> <<"x">>,
      functions |-> {"run"}, executions |-> [run |-> EmptyCmdline],
      parameters |-> [run |-> YamlParameters("run")]],
     [dir |-> <<"c", ".", "d">>, stem |-> "b", yaml_name |-> "",
      categories |-> <<"x", "">>,
      functions |-> {"b_run"}, executions |-> [b_run |-> Runnable],
      parameters |-> [b_run |-> YamlParameters("b_run")]] >>

\* roots the catalog is loaded from: the second has a hidden segment itself
Roots == {RootPath, <<"/", ".", "r">>}

\* the `filter` of from_path
Filters ==
  {NoFilter, [set |-> TRUE, text |-> <<"c", "/">>], [set |-> TRUE, text |-> <<"z">>]}

InitDiscover ==
  /\ ExecIdle
  /\ max_running_tasks = 1
  /\ CallIdle
  /\ ServeIdle
  /\ \E root \in Roots, filter \in Filters, found \in SUBSET Range(GlobEntries) :
       discovery = [path |-> root, filter |-> filter,
                    entries |-> SelectSeq(GlobEntries, LAMBDA e : e \in found),
                    next |-> 1]
  /\ book = IF discovery.entries = <<>> THEN "loading" ELSE "discovering"
  /\ page_files = <<>>
  /\ pages = <<>>
  /\ function_names = {}
  /\ lookup = [name |-> "", result |-> [found |-> FALSE]]

NextDiscover ==
  \/ from_path_glob_entry
  \/ from_path_no_pages
  \/ from_path_load_page
  \/ from_path_return

SpecDiscover == InitDiscover /\ [][NextDiscover]_vars

(***************************************************************************)
(* Properties of the discovery, under SpecDiscover.                        *)
(***************************************************************************)
\* the segments of a page file's path relative to the root
RelativeSegments(file) == Append(components(file.dir, <<>>), FileName(file))

\* no segment of the relative path begins with '.', "." and ".." aside
Visible(file) ==
  \A i \in DOMAIN RelativeSegments(file) :
    LET segment == RelativeSegments(file)[i]
    IN Head(segment) # "." \/ segment \in {<<".">>, <<".", ".">>}

\* the path of the file holds the filter, when there is one
Filtered(file) ==
  discovery.filter.set =>
    chars_contains(EntryPath(discovery.path, file), discovery.filter.text)

\* the glob entries that belong in the catalog
Candidates == SelectSeq(discovery.entries, LAMBDA e : Visible(e) /\ Filtered(e))

\* the loop over the glob entries has ended
Discovered == discovery.next > Len(discovery.entries)

\* C15: loading from a directory keeps a *.yml file exactly when no segment
\* of its path relative to the root begins with '.' and its path holds the
\* filter when one is set; the segments of the root never exclude a file;
\* when no file is kept the loading fails with the "no pages found" error.
C15_HiddenSegmentExclusion ==
  /\ Discovered => page_files = Candidates
  /\ book = "Ok" =>
       /\ Candidates # <<>>
       /\ Len(pages) = Len(Candidates)
       /\ \A i \in DOMAIN pages : pages[i].name = PageName(Candidates[i])
  /\ book = "no pages found" => Discovered /\ Candidates = <<>>
  /\ (Discovered /\ Candidates = <<>>) => book \in {"loading", "no pages found"}

\* a catalog loaded from a root with a hidden segment: the visible c/a.yml is
\* in it, the hidden .h/a.yml and c/.b.yml were found by glob and left out
C15_Witness ==
  /\ book = "Ok"
  /\ discovery.path = <<"/", ".", "r">>
  /\ GlobEntries[1] \in Range(discovery.entries)
  /\ GlobEntries[3] \in Range(discovery.entries)
  /\ page_files = <<GlobEntries[4]>>
  /\ Len(pages) = 1

\* C16: every page of a loaded catalog has a non-empty name (an absent or
\* empty name is the file stem) and no empty string among its categories,
\* whether the YAML gave them or they are the segments of the parent
\* directory of the page relative to the root.
C16_PageDefaults ==
  book = "Ok" =>
    \A i \in DOMAIN pages :
      /\ pages[i].name # ""
      /\ page_files[i].yaml_name = "" => pages[i].name = page_files[i].stem
      /\ page_files[i].yaml_name # "" => pages[i].name = page_files[i].yaml_name
      /\ \A k \in DOMAIN pages[i].categories : pages[i].categories[k] # ""
      /\ page_files[i].categories = <<>> =>
           pages[i].categories =
             [k \in DOMAIN components(page_files[i].dir, <<>>) |->
                as_str(components(page_files[i].dir, <<>>)[k])]

\* C17: every function of a loaded catalog resolves to a non-empty command
\* line on the host platform: a page with a function that has no entry for
\* the host in its platforms map, or an empty cmdline list, fails the load.
C17_UnrunnableFunctionsRejected ==
  book = "Ok" =>
    \A i \in DOMAIN pages :
      \A name \in DOMAIN pages[i].functions :
        LET cmdline == get_command_line(pages[i].functions[name].execution)
        IN cmdline.ok /\ cmdline.cmdline # <<>>

(***************************************************************************)
(* Properties of command construction and wrapping, under SpecCall.        *)
(***************************************************************************)
\* the argv resolve_command_line hands to CommandLine::from_vec_with_env
InterpolatedArgv ==
  interpolate(get_command_line(function.function.execution).cmdline,
              call.arguments, <<>>, <<>>)

\* C18: from_vec takes a leading "sudo" as the sudo flag and consumes it, the
\* next token as the binary and every token after it as an argument,
\* unchanged and in order: a later "sudo" is an argument and does not set
\* the flag; an empty argv fails, and a binary that is not in PATH gives a
\* command with app_in_path false.
C18_CommandConstruction ==
  (Resolved /\ get_command_line(function.function.execution).ok
            /\ InterpolatedArgv.ok) =>
    LET vec  == InterpolatedArgv.interpolated
        lead == vec # <<>> /\ Head(vec) = Str("sudo")
        rest == IF lead THEN Tail(vec) ELSE vec
    IN /\ vec = <<>> =>
            /\ cpc \in {"done", "returned"}
            /\ result.kind = "err"
            /\ result.error = "empty command line"
       /\ (rest # <<>> /\ Head(rest) # <<>>) =>
            ~(/\ result.kind = "err"
              /\ result.error \in {"empty command line",
                                   "could not determine application name"})
       /\ (cpc = "plan" /\ rest # <<>>) =>
            /\ command_line.sudo = lead
            /\ command_line.app = which(Head(rest)).path
            /\ command_line.app_in_path = which(Head(rest)).found
            /\ command_line.args = Tail(rest)

\* the command line execute_call handed to Container::wrap
OriginalCommandLine ==
  resolve_command_line(function.function, call.arguments).command_line

\* Container::wrap has returned a command line for the call
Wrapped ==
  /\ function.found
  /\ "container.wrap" \in Range(trace)
  /\ ~(result.kind = "err" /\ result.error = "container wrap failed")

\* C19: the wrapped command has the resolved container runtime as its binary,
\* sudo false, and as arguments, in this order: "run", "--rm", the env-file
\* option iff the overlay is not empty, one -v option per volume, the extra
\* runtime args, the image, the original binary iff preserve_app is set, and
\* the original arguments.
C19_ContainerWrapComposition ==
  Wrapped =>
    LET original  == OriginalCommandLine
        container == function.function.container
        args      == command_line.args
        envs      == IF DOMAIN original.env # {} THEN 1 ELSE 0
        volumes   == Len(container.volumes)
        extra     == Len(container.args)
        app       == IF container.preserve_app THEN 1 ELSE 0
        image     == 2 + envs + volumes + extra + 1
    IN /\ command_line.app = RuntimePath
       /\ command_line.sudo = FALSE
       /\ Len(args) = image + app + Len(original.args)
       /\ args[1] = Str("run")
       /\ args[2] = Str("--rm")
       /\ (EnvFileArg \in Range(args)) = (DOMAIN original.env # {})
       /\ envs = 1 => args[3] = EnvFileArg
       /\ \A i \in 1..volumes :
            args[2 + envs + i] = <<Lit("-v")>> \o container.volumes[i]
       /\ \A i \in 1..extra :
            args[2 + envs + volumes + i] = container.args[i]
       /\ args[image] = ContainerImage
       /\ app = 1 => args[image + 1] = original.app
       /\ \A i \in 1..Len(original.args) :
            args[image + app + i] = original.args[i]

\* a wrap with every part present: an overlay of two variables, two volumes,
\* an extra runtime arg, the original binary and two original arguments
C19_Witness ==
  /\ Wrapped
  /\ cpc = "confirm"
  /\ function.function.container.preserve_app
  /\ command_line.args =
       <<Str("run"), Str("--rm"), EnvFileArg,
         <<Lit("-v"), Lit("/a:/a")>>, <<Lit("-v"), Lit("/b:/b")>>,
         Str("--net=host"), ContainerImage, OriginalCommandLine.app>>
         \o OriginalCommandLine.args
  /\ Len(OriginalCommandLine.args) = 2
  /\ DOMAIN OriginalCommandLine.env = {"HOME", "UNSET"}

\* wrap has written a temp env-file for the call: the overlay was not empty
EnvFileWritten == Wrapped /\ DOMAIN OriginalCommandLine.env # {}

\* execute_call holds the command line it runs and has not returned
CommandHeld == cpc \in {"confirm", "prompt", "execute", "running"}

\* C20: a temp env-file written by wrap holds one KEY=VALUE line per overlay
\* entry; it exists from the return of wrap for as long as execute_call
\* holds the command, so while the subprocess runs, and it is removed once
\* the call has returned, by whatever exit; no env-file outlives a call.
C20_EnvFileLifetime ==
  /\ EnvFileWritten =>
       LET env == OriginalCommandLine.env
       IN /\ Len(env_file.contents) = Cardinality(DOMAIN env)
          /\ \A k \in DOMAIN env :
               \E i \in DOMAIN env_file.contents :
                 env_file.contents[i] = <<Lit(k), Lit("=")>> \o env[k]
          /\ CommandHeld => env_file.state = "exists"
          /\ cpc = "running" => command_line.temp_env_file
          /\ cpc \in {"done", "returned"} => env_file.state = "removed"
  /\ cpc \in {"done", "returned"} => env_file.state # "exists"
  /\ env_file.state = "exists" => EnvFileArg \in Range(command_line.args)

\* the container has run to its end with an env-file of two lines, and the
\* file is gone once the call has returned
C20_Witness ==
  /\ EnvFileWritten
  /\ cpc = "returned"
  /\ HasOutput
  /\ Len(env_file.contents) = 2
  /\ env_file.state = "removed"

(***************************************************************************)
(* The HTTP server: src/cli/serve.rs, src/book/flavors/*.rs, Book::as_tools *)
(***************************************************************************)
\* char::to_lowercase for the letters that occur in the values below
LowerChar(c) ==
  CASE c = "A" -> "a" [] c = "E" -> "e" [] c = "G" -> "g" [] c = "I" -> "i"
    [] c = "N" -> "n" [] c = "O" -> "o" [] c = "P" -> "p" [] c = "R" -> "r"
    [] c = "V" -> "v" [] OTHER -> c

\* str::to_lowercase
to_lowercase(text) == [i \in DOMAIN text |-> LowerChar(text[i])]

\* a from_string that matches the value as it was sent
from_string_exact_case(s) ==
  IF s = <<"o", "p", "e", "n", "a", "i">> THEN [ok |-> TRUE, flavor |-> "OpenAI"]
  ELSE IF s = <<"n", "e", "r", "v", "e">> THEN [ok |-> TRUE, flavor |-> "Nerve"]
  ELSE IF s = <<"r", "i", "g", "g", "i", "n", "g">>
    THEN [ok |-> TRUE, flavor |-> "Rigging"]
  ELSE [ok |-> FALSE, flavor |-> ""]

\* Flavor::from_string
from_string(s) ==
  LET lower == to_lowercase(s)
  IN IF lower = <<"o", "p", "e", "n", "a", "i">>
       THEN [ok |-> TRUE, flavor |-> "OpenAI"]
     ELSE IF lower = <<"n", "e", "r", "v", "e">>
       THEN [ok |-> TRUE, flavor |-> "Nerve"]
     ELSE IF lower = <<"r", "i", "g", "g", "i", "n", "g">>
       THEN [ok |-> TRUE, flavor |-> "Rigging"]
     ELSE [ok |-> FALSE, flavor |-> ""]

\* Flavor::from_map_or_default; Flavor::default() is OpenAI
from_map_or_default(query) ==
  IF "flavor" \in DOMAIN query THEN from_string(query["flavor"])
  ELSE [ok |-> TRUE, flavor |-> "OpenAI"]

\* the names the functions of a loaded page may have, in the order a
\* BTreeMap<String, _> iterates them (byte order of the strings)
LoadedNameOrder ==
  <<"a_b_run", "a_run", "a_s_run", "b_b_run", "b_run", "b_s_run", "run",
    "s_b_run", "s_run", "s_s_run">>

\* the keys of a map of parameters in BTreeMap iteration order
SortedParams(parameters) ==
  SelectSeq(ParamNameOrder, LAMBDA n : n \in DOMAIN parameters)

\* impl From<&Page> for Vec<openai::Tool>
openai_tools(page) ==
  LET keys == SelectSeq(LoadedNameOrder, LAMBDA n : n \in DOMAIN page.functions)
  IN [i \in 1..Len(keys) |->
        LET func == page.functions[keys[i]]
        IN [type |-> "function", name |-> keys[i],
            properties |-> DOMAIN func.parameters,
            required |-> SelectSeq(SortedParams(func.parameters),
                                   LAMBDA n : func.parameters[n].required)]]

\* impl From<&Page> for Vec<nerve::FunctionGroup>: one group for the page
nerve_groups(page) ==
  LET keys == SelectSeq(LoadedNameOrder, LAMBDA n : n \in DOMAIN page.functions)
  IN <<[type |-> "group", name |-> page.name,
        actions |-> [i \in 1..Len(keys) |->
                       [name |-> keys[i],
                        tool |-> page.name \o "." \o keys[i] \o "@robopages"]]]>>

\* impl From<&Page> for Vec<rigging::Tool>: one tool for the page
rigging_tools(page) ==
  LET keys == SelectSeq(LoadedNameOrder, LAMBDA n : n \in DOMAIN page.functions)
  IN <<[type |-> "tool", name |-> page.name,
        functions |-> [i \in 1..Len(keys) |->
                         [name |-> keys[i],
                          parameters |->
                            SortedParams(page.functions[keys[i]].parameters)]]]>>

\* the key of a page in Book.pages: the path of its file
PagePath(page) == EntryPath(discovery.path, page_files[page.path])

\* an as_tools that hands out every page, whatever the filter
RECURSIVE as_tools_unfiltered(_, _, _)
as_tools_unfiltered(ps, filter, flavor) ==
  IF ps = <<>> THEN <<>>
  ELSE (IF flavor = "Nerve" THEN nerve_groups(Head(ps))
        ELSE IF flavor = "Rigging" THEN rigging_tools(Head(ps))
        ELSE openai_tools(Head(ps)))
       \o as_tools_unfiltered(Tail(ps), filter, flavor)

\* Book::as_tools::<T>(filter), T chosen by the flavor
RECURSIVE as_tools(_, _, _)
as_tools(ps, filter, flavor) ==
  IF ps = <<>> THEN <<>>
  ELSE (IF in_filter(PagePath(Head(ps)), filter)
          THEN (IF flavor = "Nerve" THEN nerve_groups(Head(ps))
                ELSE IF flavor = "Rigging" THEN rigging_tools(Head(ps))
                ELSE openai_tools(Head(ps)))
          ELSE <<>>)
       \o as_tools(Tail(ps), filter, flavor)

\* serve_pages_impl: the answer to GET /[filter]?query
serve_pages_impl(query, filter) ==
  LET flavor == from_map_or_default(query)
  IN IF ~flavor.ok
       THEN [filter |-> filter, query |-> query, status |-> 400,
             flavor |-> "", tools |-> <<>>]
       ELSE [filter |-> filter, query |-> query, status |-> 200,
             flavor |-> flavor.flavor,
             tools |-> as_tools(pages, filter, flavor.flavor)]

\* values of the `flavor` query key a client sends
FlavorValues ==
  { <<"o", "p", "e", "n", "a", "i">>, <<"O", "p", "e", "n", "A", "I">>,
    <<"N", "E", "R", "V", "E">>, <<"n", "e", "r", "v", "e">>,
    <<"R", "i", "g", "g", "i", "n", "g">>, <<"r", "i", "g", "g", "i", "n", "g">>,
    <<>>, <<"x", "m", "l">>, <<"n", "e", "r", "v", "e", "s">> }

\* web::Query<HashMap<String, String>>
Queries ==
  {<<>>, [format |-> <<"n", "e", "r", "v", "e">>]}
    \cup {[flavor |-> v] : v \in FlavorValues}

\* the {filter} segment of GET /{filter}
UrlFilters ==
  {[set |-> TRUE, text |-> t] :
     t \in {<<"c">>, <<"a", ".", "y", "m", "l">>, <<"c", "/", "d">>, <<"z">>}}

\* GET /
serve_pages ==
  /\ book = "Ok"
  /\ \E query \in Queries : http' = serve_pages_impl(query, NoFilter)
  /\ UNCHANGED remote
  /\ UNCHANGED <<execVars, loadVars, callVars>>

\* GET /{filter}
serve_pages_with_filter ==
  /\ book = "Ok"
  /\ \E query \in Queries, filter \in UrlFilters :
       http' = serve_pages_impl(query, filter)
  /\ UNCHANGED remote
  /\ UNCHANGED <<execVars, loadVars, callVars>>

\* serve: Book::from_path(args.path, args.filter), then the routes
InitServe ==
  /\ ExecIdle
  /\ max_running_tasks = 1
  /\ CallIdle
  /\ ServeIdle
  /\ \E found \in SUBSET Range(GlobEntries) :
       discovery = [path |-> RootPath, filter |-> NoFilter,
                    entries |-> SelectSeq(GlobEntries, LAMBDA e : e \in found),
                    next |-> 1]
  /\ book = IF discovery.entries = <<>> THEN "loading" ELSE "discovering"
  /\ page_files = <<>>
  /\ pages = <<>>
  /\ function_names = {}
  /\ lookup = [name |-> "", result |-> [found |-> FALSE]]

NextServe ==
  \/ from_path_glob_entry
  \/ from_path_no_pages
  \/ from_path_load_page
  \/ from_path_return
  \/ serve_pages
  \/ serve_pages_with_filter

SpecServe == InitServe /\ [][NextServe]_vars

(***************************************************************************)
(* Properties of the HTTP server, under SpecServe.                         *)
(***************************************************************************)
\* a GET of the catalog has been answered
Answered == http.status # 0

\* the capital of a small letter of the flavor names
UpperChar(c) ==
  CASE c = "a" -> "A" [] c = "e" -> "E" [] c = "g" -> "G" [] c = "i" -> "I"
    [] c = "n" -> "N" [] c = "o" -> "O" [] c = "p" -> "P" [] c = "r" -> "R"
    [] c = "v" -> "V" [] OTHER -> c

\* `value` spells `name`, each letter in either case
Spells(value, name) ==
  /\ Len(value) = Len(name)
  /\ \A i \in DOMAIN name : value[i] \in {name[i], UpperChar(name[i])}

\* the projection a flavor value names, "" when it names none
Named(value) ==
  IF Spells(value, <<"o", "p", "e", "n", "a", "i">>) THEN "OpenAI"
  ELSE IF Spells(value, <<"n", "e", "r", "v", "e">>) THEN "Nerve"
  ELSE IF Spells(value, <<"r", "i", "g", "g", "i", "n", "g">>) THEN "Rigging"
  ELSE ""

\* the kind of record each projection is made of
RecordType(flavor) ==
  CASE flavor = "OpenAI" -> "function" [] flavor = "Nerve" -> "group"
    [] flavor = "Rigging" -> "tool"

\* C21: without a `flavor` query key the projection is openai; openai, nerve
\* and rigging in any letter case select their projection; any other value,
\* the empty string too, is answered with status 400 and no catalog.
C21_FlavorSelection ==
  Answered =>
    LET selected == IF "flavor" \in DOMAIN http.query
                      THEN Named(http.query["flavor"]) ELSE "OpenAI"
    IN IF selected = ""
         THEN http.status = 400 /\ http.tools = <<>>
         ELSE /\ http.status = 200
              /\ http.flavor = selected
              /\ \A i \in DOMAIN http.tools :
                   http.tools[i].type = RecordType(selected)

\* ?flavor=NERVE is answered with the nerve projection of a page
C21_Witness ==
  /\ Answered
  /\ "flavor" \in DOMAIN http.query
  /\ http.query["flavor"] = <<"N", "E", "R", "V", "E">>
  /\ http.status = 200
  /\ http.tools # <<>>
  /\ http.tools[1].type = "group"

\* the loaded pages whose path holds the filter of the request, in path order
MatchingPages ==
  SelectSeq(pages, LAMBDA page :
    http.filter.set => chars_contains(PagePath(page), http.filter.text))

\* the functions of the matching pages: page by page, key by key
MatchingFunctions ==
  Concat([p \in DOMAIN MatchingPages |->
            LET page == MatchingPages[p]
                keys == SelectSeq(LoadedNameOrder,
                                  LAMBDA n : n \in DOMAIN page.functions)
            IN [k \in DOMAIN keys |->
                  [name |-> keys[k], function |-> page.functions[keys[k]]]]])

\* C22: the openai projection holds exactly one Tool per function of every
\* page whose path contains the filter (of every page without a filter), in
\* page-path order and then in key order, so none when no path matches; the
\* required list of a tool is its parameters with required = true, in key
\* order.
C22_ToolsWithFilter ==
  (Answered /\ http.status = 200 /\ http.flavor = "OpenAI") =>
    /\ Len(http.tools) = Len(MatchingFunctions)
    /\ \A i \in DOMAIN http.tools :
         LET parameters == MatchingFunctions[i].function.parameters
         IN /\ http.tools[i].name = MatchingFunctions[i].name
            /\ http.tools[i].required =
                 SelectSeq(ParamNameOrder,
                           LAMBDA n : /\ n \in DOMAIN parameters
                                      /\ parameters[n].required)

\* GET /c of a catalog with a page outside c: the tools of the pages under c
\* only, the first with one required parameter out of two
C22_Witness ==
  /\ Answered
  /\ http.status = 200
  /\ http.flavor = "OpenAI"
  /\ http.filter.set
  /\ http.filter.text = <<"c">>
  /\ Len(MatchingPages) < Len(pages)
  /\ Len(http.tools) >= 2
  /\ http.tools[1].required = <<"a">>
  /\ http.tools[1].properties = {"a", "b"}

(***************************************************************************)
(* The remote: SSHConnection::from_str, src/runtime/ssh.rs                 *)
(***************************************************************************)
\* std::env::var("USER"), or "root"
LocalUser == <<"r", "o", "o", "t">>

\* `let mut port = 22`
DefaultPort == 22

\* u16::MAX
MaxPort == 65535

Digits == {"0", "1", "2", "3", "4", "5", "6", "7", "8", "9"}

DigitValue(c) ==
  CASE c = "0" -> 0 [] c = "1" -> 1 [] c = "2" -> 2 [] c = "3" -> 3
    [] c = "4" -> 4 [] c = "5" -> 5 [] c = "6" -> 6 [] c = "7" -> 7
    [] c = "8" -> 8 [] c = "9" -> 9

\* the number written by a sequence of digits
RECURSIVE Decimal(_)
Decimal(text) ==
  IF text = <<>> THEN 0
  ELSE 10 * Decimal(SubSeq(text, 1, Len(text) - 1)) + DigitValue(text[Len(text)])

\* a parse that falls back to the default port
parse_or_default(text) ==
  IF text # <<>> /\ (\A i \in DOMAIN text : text[i] \in Digits)
                 /\ Decimal(text) <= MaxPort
    THEN [ok |-> TRUE, value |-> Decimal(text)]
    ELSE [ok |-> TRUE, value |-> DefaultPort]

\* str::parse::<u16>
parse(text) ==
  IF text # <<>> /\ (\A i \in DOMAIN text : text[i] \in Digits)
                 /\ Decimal(text) <= MaxPort
    THEN [ok |-> TRUE, value |-> Decimal(text)]
    ELSE [ok |-> FALSE, value |-> 0]

\* str::split(sep).collect(): the pieces between separators, empty ones kept
RECURSIVE split(_, _, _)
split(text, sep, piece) ==
  IF text = <<>> THEN <<piece>>
  ELSE IF Head(text) = sep THEN <<piece>> \o split(Tail(text), sep, <<>>)
  ELSE split(Tail(text), sep, Append(piece, Head(text)))

\* from_str: `match host_parts.len()` on the part that holds the host
host_and_port(part) ==
  LET host_parts == split(part, ":", <<>>)
  IN IF Len(host_parts) = 1
       THEN [ok |-> TRUE, error |-> "", host |-> host_parts[1],
             port |-> DefaultPort]
     ELSE IF Len(host_parts) = 2
       THEN IF parse(host_parts[2]).ok
              THEN [ok |-> TRUE, error |-> "", host |-> host_parts[1],
                    port |-> parse(host_parts[2]).value]
              ELSE [ok |-> FALSE, error |-> "invalid port", host |-> <<>>,
                    port |-> 0]
     ELSE [ok |-> FALSE, error |-> "invalid host format", host |-> <<>>,
           port |-> 0]

\* SSHConnection::from_str(s, public_key, passphrase); key_exists is
\* public_key.exists()
from_str(s, key_exists) ==
  IF s = <<>>
    THEN [kind |-> "err", error |-> "SSH connection string cannot be empty"]
  ELSE LET parts == split(s, "@", <<>>)
       IN IF Len(parts) > 2
            THEN [kind |-> "err",
                  error |-> "invalid SSH connection string format"]
          ELSE LET hp == host_and_port(parts[Len(parts)])
               IN IF ~hp.ok THEN [kind |-> "err", error |-> hp.error]
                  ELSE IF ~key_exists
                    THEN [kind |-> "err",
                          error |-> "public key file does not exist"]
                  ELSE [kind |-> "ok", host |-> hp.host, port |-> hp.port,
                        user |-> IF Len(parts) = 2 THEN parts[1]
                                 ELSE LocalUser]

\* the characters a connection string is made of
SpecChars == {"u", "@", "h", ":", "2", "7"}

\* the connection strings given with --ssh
ConnectionStrings == UNION {[1..n -> SpecChars] : n \in 0..MaxSpecLen}

\* run: SSHConnection::from_str(&ssh_str, &args.ssh_key, ..)
ssh_from_str ==
  /\ remote.result.kind = "none"
  /\ remote' = [remote EXCEPT !.result = from_str(remote.input, remote.key_exists)]
  /\ UNCHANGED http
  /\ UNCHANGED <<execVars, loadVars, callVars>>

InitRemote ==
  /\ ExecIdle
  /\ max_running_tasks = 1
  /\ LoadIdle
  /\ CallIdle
  /\ http = [filter |-> NoFilter, query |-> <<>>, status |-> 0,
             flavor |-> "", tools |-> <<>>]
  /\ remote \in [input : ConnectionStrings, key_exists : BOOLEAN,
                 result : {[kind |-> "none"]}]

NextRemote == ssh_from_str

SpecRemote == InitRemote /\ [][NextRemote]_vars

(***************************************************************************)
(* Properties of the remote, under SpecRemote.                             *)
(***************************************************************************)
\* the positions of character c in the connection string
Positions(c) == {i \in DOMAIN remote.input : remote.input[i] = c}

\* where the part holding the host begins: after the '@', if there is one
HostStart == IF Positions("@") = {} THEN 1 ELSE (CHOOSE i \in Positions("@") : TRUE) + 1

\* the ':' of the part holding the host
HostColons == {i \in Positions(":") : i >= HostStart}

\* the text of the port, for a string with one ':' in its host part
PortText ==
  LET colon == CHOOSE i \in HostColons : TRUE
  IN SubSeq(remote.input, colon + 1, Len(remote.input))

\* the port text is a number a port can be
NumericPort ==
  /\ PortText # <<>>
  /\ \A i \in DOMAIN PortText : PortText[i] \in Digits
  /\ Decimal(PortText) <= MaxPort

\* C23: from_str accepts [user@]host[:port], user defaulting to the local
\* user and port to 22; it fails on an empty string, on more than one '@', on
\* more than one ':' in the host part, on a port that is not a number and on
\* a key file that does not exist; on success host, user and port are the
\* fields parsed.
C23_RemoteSpecParsing ==
  remote.result.kind # "none" =>
    LET failing == \/ remote.input = <<>>
                   \/ Cardinality(Positions("@")) > 1
                   \/ Cardinality(HostColons) > 1
                   \/ Cardinality(HostColons) = 1 /\ ~NumericPort
                   \/ ~remote.key_exists
    IN IF failing THEN remote.result.kind = "err"
       ELSE /\ remote.result.kind = "ok"
            /\ remote.result.user =
                 IF Positions("@") = {} THEN LocalUser
                 ELSE SubSeq(remote.input, 1, HostStart - 2)
            /\ remote.result.host =
                 SubSeq(remote.input, HostStart,
                        IF HostColons = {} THEN Len(remote.input)
                        ELSE (CHOOSE i \in HostColons : TRUE) - 1)
            /\ remote.result.port =
                 IF HostColons = {} THEN DefaultPort ELSE Decimal(PortText)

\* u@h:2 with a key file that exists: user u, host h, port 2
C23_Witness ==
  /\ remote.input = <<"u", "@", "h", ":", "2">>
  /\ remote.key_exists
  /\ remote.result = [kind |-> "ok", host |-> <<"h">>, port |-> 2, user |-> <<"u">>]

(***************************************************************************)
(* Properties of the pipeline of one call, under SpecCall.                 *)
(***************************************************************************)
\* the place of a step of the trace in the pipeline of execute_call
StepRank(step) ==
  CASE step = "get_function"         -> 1
    [] step = "validate_arguments"   -> 2
    [] step = "resolve_command_line" -> 3
    [] step = "ssh.app_in_path"      -> 4
    [] step = "container.resolve"    -> 5
    [] step = "container.wrap"       -> 6
    [] step = "prompt::ask"          -> 7
    [] step \in {"read_line: " \o l : l \in UserLines} -> 8
    [] step \in {"command_line.execute", "ssh.execute"} -> 9
    [] OTHER                         -> 10

\* lookup, argument validation or template resolution fails for the call
FailsEarly ==
  LET found == get_function(pages, call.name)
  IN \/ ~found.found
     \/ ~validate_arguments(found.function.parameters, call.arguments).ok
     \/ ~resolve_command_line(found.function, call.arguments).ok

\* the call is over and it failed in one of these three steps
FailedEarly == cpc \in {"done", "returned"} /\ FailsEarly

\* C25: the steps of a call come in the order lookup, argument validation,
\* template resolution, planning, confirmation (if interactive), execution,
\* and a failing step is the last; a call that fails in lookup, validation
\* or resolution has probed no remote, resolved and wrapped no container,
\* created no env-file, asked nothing and spawned no process, and the batch
\* of the call returns an error and no results.
C25_PipelineOrder ==
  /\ \A i, j \in DOMAIN trace :
       i < j => /\ StepRank(trace[i]) <= StepRank(trace[j])
                /\ StepRank(trace[i]) = StepRank(trace[j]) => StepRank(trace[i]) = 8
  /\ \A i \in DOMAIN trace :
       StepRank(trace[i]) > 3 =>
         {"get_function", "validate_arguments", "resolve_command_line"}
           \subseteq {trace[k] : k \in 1..(i - 1)}
  /\ (Executed /\ interactive) => "prompt::ask" \in Range(trace)
  /\ result.kind = "err" => cpc \in {"done", "returned"}
  /\ FailsEarly => cpc \notin {"plan", "container", "container.resolve",
                               "container.wrap", "confirm", "prompt",
                               "execute", "running"}
  /\ FailedEarly =>
       /\ result.kind = "err"
       /\ \A i \in DOMAIN trace : StepRank(trace[i]) <= 3
       /\ env_file.state = "none"
       /\ command_line = NoCommandLine
       /\ cpc = "returned" => batch_ret = [ret |-> "Err", results |-> <<>>]

\* a call for a remote, in interactive mode, that failed in template
\* resolution: its batch returned the error
C25_Witness ==
  /\ cpc = "returned"
  /\ ssh /\ interactive
  /\ FailedEarly
  /\ result.error = "environment variable not set"
  /\ trace = <<"get_function", "validate_arguments", "resolve_command_line">>
  /\ batch_ret.ret = "Err"

(***************************************************************************)
(* Properties of substitution, under SpecCall.                             *)
(***************************************************************************)
\* C26: every placeholder of an argv element is replaced by its own text in
\* one pass over the element as written in the template: text inserted for
\* one placeholder (a caller's value, an environment value, a default) is
\* never scanned again and replaced as another placeholder of the same
\* element; elements without a placeholder, and text that does not match
\* the grammar, are copied unchanged.
C26_SinglePassSubstitution ==
  (Resolved /\ get_command_line(function.function.execution).ok
            /\ InterpolatedArgv.ok) =>
    LET raw == get_command_line(function.function.execution).cmdline
        vec == InterpolatedArgv.interpolated
    IN /\ Len(vec) = Len(raw)
       /\ \A k \in DOMAIN raw : vec[k] = ResolvedElement(raw[k])
       /\ cpc = "plan" =>
            command_line =
              from_vec_with_env([k \in DOMAIN raw |-> ResolvedElement(raw[k])],
                                InterpolatedArgv.env).command_line

(***************************************************************************)
(* The executor under fair scheduling.                                     *)
(***************************************************************************)
\* execute() called with any usize the bound allows, 0 included
InitProgress ==
  /\ ExecIdle
  /\ max_running_tasks \in 0..MaxRunning
  /\ LoadIdle
  /\ CallIdle
  /\ ServeIdle

\* the tokio runtime polls every spawned task that can take a step, a timer
\* that was set fires, every call that got in leaves execute_call, and
\* join_all resolves once its futures have
Fairness ==
  /\ \A t \in Tasks : /\ WF_vars(wait_for_available_tasks(t))
                      /\ WF_vars(wait_sleep_elapsed(t))
                      /\ WF_vars(execute_call_enter(t))
                      /\ WF_vars(execute_call_exit(t))
  /\ \A b \in 1..MaxTasks : WF_vars(execute_return(b))

SpecProgress == InitProgress /\ [][Next]_vars /\ Fairness

\* the task left wait_for_available_tasks
Admitted(t) == task[t].pc \in {"admitted", "inside", "finished"}

C28_BatchCompletionBarrier ==
  \A b \in DOMAIN batches :
    batches[b].ret # "pending" =>
      /\ \A t \in Tasks : task[t].batch = b => task[t].pc = "finished"
      /\ ACTIVE_TASKS =
           Cardinality({t \in Tasks : task[t].pc = "inside" /\ task[t].batch # b})

\* a batch whose first call failed has returned Err, its second call over,
\* while a call of another batch is still running
C28_Witness ==
  \E b \in DOMAIN batches :
    /\ batches[b].ret = "Err"
    /\ Len(batches[b].calls) >= 2
    /\ task[TaskAt(b, 1)].result.kind = "err"
    /\ task[TaskAt(b, 2)].pc = "finished"
    /\ \E t \in Tasks : task[t].batch # b /\ task[t].pc = "inside"

(***************************************************************************)
(* Properties of renaming, under SpecLoad.                                 *)
(***************************************************************************)
\* C29: every page of a successfully loaded catalog has as many functions as
\* its YAML file defines, and each definition of the file is reachable
\* under exactly one name of the page: a rename never overwrites another
\* function of the same page.
C29_RenamingPreservesFunctions ==
  book = "Ok" =>
    \A p \in DOMAIN pages :
      LET file    == pages[p].path
          defined == page_files[file].functions
          loaded  == pages[p].functions
      IN /\ Cardinality(DOMAIN loaded) = Cardinality(defined)
         /\ \A key \in defined :
              Cardinality({n \in DOMAIN loaded :
                             loaded[n] = FunctionDef(file, key)}) = 1

(***************************************************************************)
(* Properties of what a caller can change, under SpecCall.                 *)
(***************************************************************************)
\* the template has a binary, and neither its sudo position nor its binary
\* position holds a placeholder
FixedBinary ==
  LET cmdline == get_command_line(function.function.execution)
      raw     == cmdline.cmdline
      rest    == IF raw # <<>> /\ Head(raw) = Str("sudo") THEN Tail(raw) ELSE raw
  IN /\ cmdline.ok
     /\ rest # <<>>
     /\ \A i \in DOMAIN Head(rest) : ~IsPlaceholder(Head(rest)[i])

\* the argument maps that pass validation and resolve for the function
ValidArgumentMaps ==
  {m \in ArgumentMaps :
     /\ validate_arguments(function.function.parameters, m).ok
     /\ resolve_command_line(function.function, m).ok}

\* C30: for a function whose argv has no placeholder in its sudo or binary
\* position, the command built for the call has the same sudo flag, the
\* same binary and the same number of arguments as the command built for
\* any other argument map that passes validation: a caller's value never
\* becomes the sudo flag or the binary and is never dropped.
C30_CallerCannotChangeCommand ==
  (function.found /\ cpc = "plan" /\ FixedBinary) =>
    \A m \in ValidArgumentMaps :
      LET other == resolve_command_line(function.function, m).command_line
      IN /\ command_line.sudo = other.sudo
         /\ command_line.app = other.app
         /\ command_line.app_in_path = other.app_in_path
         /\ Len(command_line.args) = Len(other.args)

====
